---- MODULE Spec2Model ----
(***************************************************************************)
(* Model of tensorflow/contrib/tensorrt/convert/convert_nodes.cc:          *)
(* the Converter (symbol table, batch size, per-node driver) and the       *)
(* engine build orchestrator ConvertGraphDefToEngine.                      *)
(*                                                                         *)
(* Strings are sequences of one-character strings, so that prefix tests,   *)
(* find_last_of, erase and StrCat are computed as the code computes them.  *)
(* A network tensor (an nvinfer1::ITensor) is its index in network.tensors; *)
(* index 0 is nullptr.                                                     *)
(***************************************************************************)
EXTENDS Integers, Sequences, FiniteSets, TLC

VARIABLES
  batch_size_,          \* Converter::batch_size_
  trt_tensors_,         \* Converter::trt_tensors_ : name -> TRT_TensorOrWeights
  network,              \* the nvinfer1::INetworkDefinition under construction
  plugins,              \* op names registered with PluginFactoryTensorRT
  ret,                  \* the last call: operation, arguments, returned status
  pc,                   \* position of ConvertGraphDefToEngine
  gdef,                 \* its argument gdef.node()
  input_shapes,         \* its argument input_shapes
  node_idx,             \* number of nodes of gdef the loop has taken
  output_tensors,       \* its local output_tensors
  engine,               \* *engine: "null" or "engine"
  convert_successfully, \* *convert_successfully
  result                \* status returned by ConvertGraphDefToEngine

vars == <<batch_size_, trt_tensors_, network, plugins, ret, pc, gdef,
          input_shapes, node_idx, output_tensors, engine,
          convert_successfully, result>>

convVars == <<batch_size_, trt_tensors_, network>>
engineVars == <<pc, gdef, input_shapes, node_idx, output_tensors, engine,
                convert_successfully, result>>

----------------------------------------------------------------------------
(* Bounds of the model.                                                    *)

MaxCalls == 2        \* calls made on one Converter by the API-level driver
MaxNodes == 3        \* nodes of a graph fragment
MaxBatch == 1        \* largest concrete batch size tried

----------------------------------------------------------------------------
(* Strings.                                                                *)

Str1(c) == <<c>>

kInputPHName ==
  <<"T","e","n","s","o","r","R","T","I","n","p","u","t","P","H","_">>

kOutputPHName ==
  <<"T","e","n","s","o","r","R","T","O","u","t","p","u","t","P","H","_">>

StartsWith(s, prefix) ==
  /\ Len(s) >= Len(prefix)
  /\ SubSeq(s, 1, Len(prefix)) = prefix

DigitChars == <<"0","1","2","3","4","5","6","7","8","9">>

IsDigit(c) == \E d \in 1..10 : DigitChars[d] = c

DigitVal(c) == (CHOOSE d \in 1..10 : DigitChars[d] = c) - 1

RECURSIVE DecimalValue(_)
DecimalValue(s) ==
  IF s = <<>> THEN 0
  ELSE 10 * DecimalValue(SubSeq(s, 1, Len(s) - 1)) + DigitVal(s[Len(s)])

\* strings::safe_strto32 on the characters the model uses (letters, digits,
\* ':' and '^'): succeeds iff the text is a non-empty run of digits.
safe_strto32(s) ==
  IF s # <<>> /\ \A i \in 1..Len(s) : IsDigit(s[i])
  THEN [ok |-> TRUE, value |-> DecimalValue(s)]
  ELSE [ok |-> FALSE, value |-> -1]

RECURSIVE IntToStr(_)
IntToStr(i) ==
  IF i < 10 THEN <<DigitChars[i + 1]>>
  ELSE IntToStr(i \div 10) \o <<DigitChars[(i % 10) + 1]>>

\* StrCat(output_name, ":", i)
StrCatColon(name, i) == name \o <<":">> \o IntToStr(i)

\* string::find_last_of(':'), 1-based; 0 stands for npos.
FindLastOfColon(name) ==
  IF \E i \in 1..Len(name) : name[i] = ":"
  THEN CHOOSE i \in 1..Len(name) :
         /\ name[i] = ":"
         /\ \A j \in (i + 1)..Len(name) : name[j] # ":"
  ELSE 0

----------------------------------------------------------------------------
(* Status codes.                                                           *)

OK == "OK"
\* A call that does not return: std::out_of_range from vector::at, a failed
\* CHECK, a null dereference.
Abort == "Abort"

IsError(s) == s # OK /\ s # Abort

----------------------------------------------------------------------------
(* TRT_TensorOrWeights and TRT_ShapedWeights.                              *)

nullptr == 0

NoWeights == [type |-> "DT_FLOAT", shape |-> <<>>]

\* TRT_TensorOrWeights(ITensor tensor, int batch_size)
TensorValue(tensor, batch_size) ==
  [is_tensor |-> TRUE, tensor |-> tensor, batch_size |-> batch_size,
   weights |-> NoWeights]

\* TRT_TensorOrWeights(const TRT_ShapedWeights& weights)
WeightsValue(weights) ==
  [is_tensor |-> FALSE, tensor |-> nullptr, batch_size |-> -1,
   weights |-> weights]

\* The "unknown" batch size: the initial Converter::batch_size_ and the batch
\* size of a tensor value built without one.
UnknownBatchSize == -1

----------------------------------------------------------------------------
(* The accelerator network: tensors with their name and dimensions, the    *)
(* layers added so far and the tensors marked as outputs, in order.        *)

EmptyNetwork == [tensors |-> <<>>, layers |-> <<>>, outputs |-> <<>>]

NullName == [null |-> TRUE, str |-> <<>>]
Name(s) == [null |-> FALSE, str |-> s]

\* tensor_name == nullptr || std::strlen(tensor_name) == 0
IsUnnamed(n) == n.null \/ Len(n.str) = 0

\* A new ITensor of the network; returns the network and the tensor's index.
NewTensor(net, name, dims) ==
  [net |-> [net EXCEPT !.tensors = Append(@, [name |-> name, dims |-> dims])],
   tensor |-> Len(net.tensors) + 1]

\* ITensor::setName
SetName(net, tensor, s) == [net EXCEPT !.tensors[tensor].name = Name(s)]

\* INetworkDefinition::markOutput
MarkOutput(net, tensor) == [net EXCEPT !.outputs = Append(@, tensor)]

AddLayer(net, kind) == [net EXCEPT !.layers = Append(@, kind)]

----------------------------------------------------------------------------
(* Dimension utilities.                                                    *)

RECURSIVE Product(_)
Product(d) == IF d = <<>> THEN 1 ELSE d[1] * Product(Tail(d))

\* int64_t TrtDimsNumElements(const nvinfer1::Dims& dims)
TrtDimsNumElements(dims) == IF Len(dims) = 0 THEN 0 ELSE Product(dims)

----------------------------------------------------------------------------
(* Converter state as a value, so that one method can call another.        *)

Conv(b, t, n) == [batch_size_ |-> b, trt_tensors_ |-> t, network |-> n]

\* MaybeUpdateBatchSize adopting the candidate also on a mismatch.
MaybeUpdateBatchSize_Adopt(cv, batch_size) ==
  IF cv.batch_size_ < 0 \/ batch_size < 0 \/ cv.batch_size_ = batch_size
  THEN [cv |-> IF cv.batch_size_ < 0 /\ batch_size >= 0
               THEN [cv EXCEPT !.batch_size_ = batch_size]
               ELSE cv,
        status |-> OK]
  ELSE [cv |-> [cv EXCEPT !.batch_size_ = batch_size],
        status |-> "InvalidArgument"]

\* Status Converter::MaybeUpdateBatchSize(int batch_size)
MaybeUpdateBatchSize(cv, batch_size) ==
  IF cv.batch_size_ < 0 \/ batch_size < 0 \/ cv.batch_size_ = batch_size
  THEN [cv |-> IF cv.batch_size_ < 0 /\ batch_size >= 0
               THEN [cv EXCEPT !.batch_size_ = batch_size]
               ELSE cv,
        status |-> OK]
  ELSE [cv |-> cv, status |-> "InvalidArgument"]

\* AddTensorOrWeights assigning (map[name] = input) instead of inserting.
AddTensorOrWeights_Assign(cv, name, input) ==
  LET stamped == IF input.is_tensor
                 THEN [input EXCEPT !.batch_size = cv.batch_size_]
                 ELSE input
      assigned == [n \in DOMAIN cv.trt_tensors_ \cup {name} |->
                     IF n = name THEN stamped ELSE cv.trt_tensors_[n]]
  IN [cv |-> [cv EXCEPT !.trt_tensors_ = assigned],
      status |-> IF name \notin DOMAIN cv.trt_tensors_ THEN OK
                 ELSE "AlreadyExists"]

\* Status Converter::AddTensorOrWeights(const string& name,
\*                                      TRT_TensorOrWeights input)
AddTensorOrWeights(cv, name, input) ==
  LET stamped == IF input.is_tensor
                 THEN [input EXCEPT !.batch_size = cv.batch_size_]
                 ELSE input
  IN IF name \notin DOMAIN cv.trt_tensors_
     THEN [cv |-> [cv EXCEPT !.trt_tensors_ = (name :> stamped) @@ @],
           status |-> OK]
     ELSE [cv |-> cv, status |-> "AlreadyExists"]

\* Status Converter::GetTensorOrWeights(const string& name,
\*                                      TRT_TensorOrWeights* output)
GetTensorOrWeights(cv, name) ==
  IF name \notin DOMAIN cv.trt_tensors_
  THEN [status |-> "NotFound", output |-> WeightsValue(NoWeights)]
  ELSE [status |-> OK, output |-> cv.trt_tensors_[name]]

\* GetInputs looking every name up as written.
LookupName_AsWritten(input_name) == input_name

\* The name GetInputs looks up for one entry of node_def.input(): a trailing
\* ":0" is erased.
LookupName(input_name) ==
  LET last == FindLastOfColon(input_name)
  IN IF last # 0 /\ last + 1 = Len(input_name) /\ input_name[last + 1] = "0"
     THEN SubSeq(input_name, 1, last - 1)
     ELSE input_name

\* input_name[0] == '^' (the terminating NUL of an empty string is not '^')
IsControlInput(input_name) == Len(input_name) > 0 /\ input_name[1] = "^"

\* Status Converter::GetInputs(const NodeDef& node_def,
\*                             std::vector<TRT_TensorOrWeights>* inputs) const
RECURSIVE GetInputsFrom(_, _, _, _)
GetInputsFrom(cv, names, i, inputs) ==
  IF i > Len(names) THEN [status |-> OK, inputs |-> inputs]
  ELSE IF IsControlInput(names[i])
       THEN GetInputsFrom(cv, names, i + 1, inputs)
       ELSE LET name == LookupName(names[i])
            IN IF name \in DOMAIN cv.trt_tensors_
               THEN GetInputsFrom(cv, names, i + 1,
                                  Append(inputs, cv.trt_tensors_[name]))
               ELSE [status |-> "InvalidArgument", inputs |-> inputs]

GetInputs(cv, node_def) == GetInputsFrom(cv, node_def.input, 1, <<>>)

----------------------------------------------------------------------------
(* Per-operator conversion functions.  Each takes the OpConverterParams    *)
(* (node_def, inputs, validation_only), the network, and ext, the answers  *)
(* of the accelerator API during this call; it yields the returned status, *)
(* the values pushed to params->outputs and the network.  OpConverterParams *)
(* is built in two places: ConvertNode passes the Converter and            *)
(* validation_only = false, ValidateNode passes a null Converter, a null   *)
(* outputs vector and validation_only = true.                              *)

Params(node_def, inputs, validation_only, net, ext) ==
  [node_def |-> node_def, inputs |-> inputs,
   validation_only |-> validation_only, net |-> net, ext |-> ext,
   converter |-> IF validation_only THEN nullptr ELSE 1]

Fail(params, status) ==
  [status |-> status, outputs |-> <<>>, net |-> params.net]

\* inline Status ConvertDType(DataType tf_dtype, nvinfer1::DataType* trt_dtype)
ConvertDType(tf_dtype) ==
  IF tf_dtype \in {"DT_FLOAT", "DT_INT8", "DT_HALF", "DT_INT32"}
  THEN OK ELSE "InvalidArgument"

\* tensorflow::DataTypeSize
DataTypeSize(dtype) ==
  CASE dtype \in {"DT_FLOAT", "DT_INT32"} -> 4
    [] dtype \in {"DT_HALF", "DT_INT16"} -> 2
    [] dtype \in {"DT_INT8", "DT_UINT8"} -> 1
    [] OTHER -> 0

\* Tensor::NumElements of a tensor of the given TF shape
NumElements(shape) == Product(shape)

\* Status GetTensorDimsWithProtoShape(const Tensor& tensor,
\*                                    int tensor_proto_array_len, Dims* dims)
GetTensorDimsWithProtoShape(shape, tensor_proto_array_len) ==
  IF Len(shape) > 0
  THEN IF TrtDimsNumElements(shape) # tensor_proto_array_len
          /\ tensor_proto_array_len # 1
       THEN [status |-> "InvalidArgument", dims |-> shape]
       ELSE [status |-> OK, dims |-> shape]
  ELSE [status |-> OK, dims |-> <<tensor_proto_array_len>>]

\* Status TfTensorToTrtWeights(dtype, tensor, tensor_proto_array,
\*                             tensor_proto_array_len, store, weights)
TfTensorToTrtWeights(dtype, shape, tensor_proto_array_len) ==
  LET d == GetTensorDimsWithProtoShape(shape, tensor_proto_array_len)
  IN [status |-> d.status, weights |-> [type |-> dtype, shape |-> d.dims]]

\* The part of ConvertConst that reads attr "value" once the tensor is parsed.
ConstWeights(dtype, converted_dtype, proto) ==
  LET none == [status |-> OK,
               weights |-> [type |-> converted_dtype, shape |-> <<>>]]
      dtype_size == DataTypeSize(dtype)
      count == proto.content \div dtype_size
      d == GetTensorDimsWithProtoShape(proto.shape, count)
  IN IF NumElements(proto.shape) = 0 THEN none
     ELSE IF proto.float_val > 0
       THEN TfTensorToTrtWeights(converted_dtype, proto.shape, proto.float_val)
     ELSE IF proto.int_val > 0
       THEN TfTensorToTrtWeights(converted_dtype, proto.shape, proto.int_val)
     ELSE IF proto.half_val > 0
       THEN [none EXCEPT !.status = "Unimplemented"]
     ELSE IF proto.content > 0
       THEN IF proto.content % dtype_size # 0
            THEN [none EXCEPT !.status = "FailedPrecondition"]
            ELSE IF d.status # OK THEN [none EXCEPT !.status = d.status]
            ELSE IF proto.content # TrtDimsNumElements(d.dims) * dtype_size
            THEN [none EXCEPT !.status = "FailedPrecondition"]
            ELSE IF NumElements(proto.shape) # count
            THEN [none EXCEPT !.status = "FailedPrecondition"]
            ELSE IF dtype_size = DataTypeSize(converted_dtype)
                    \/ dtype \in {"DT_INT16", "DT_INT8", "DT_UINT8"}
            THEN [status |-> OK,
                  weights |-> [type |-> converted_dtype, shape |-> d.dims]]
            ELSE [none EXCEPT !.status = "FailedPrecondition"]
     ELSE [none EXCEPT !.status = "Unimplemented"]

\* tensorflow::Status ConvertConst(OpConverterParams* params)
ConvertConst(params) ==
  LET attr == params.node_def.attr
      dtype == attr["dtype"]
      converted_dtype ==
        IF dtype \in {"DT_INT16", "DT_INT8", "DT_UINT8"} THEN "DT_INT32"
        ELSE dtype
      w == ConstWeights(dtype, converted_dtype, attr["value"])
  IN IF params.inputs # <<>> THEN Fail(params, "InvalidArgument")
     ELSE IF "dtype" \notin DOMAIN attr THEN Fail(params, Abort)
     ELSE IF ConvertDType(converted_dtype) # OK
       THEN Fail(params, ConvertDType(converted_dtype))
     ELSE IF "value" \notin DOMAIN attr THEN Fail(params, Abort)
     ELSE IF ~attr["value"].parse_ok THEN Fail(params, "Internal")
     ELSE IF w.status # OK THEN Fail(params, w.status)
     ELSE [status |-> OK,
           outputs |-> IF params.validation_only THEN <<>>
                       ELSE <<WeightsValue(w.weights)>>,
           net |-> params.net]

\* tensorflow::Status ConvertIdentity(OpConverterParams* params)
\* params->inputs.at(0) throws std::out_of_range on an empty input list.
ConvertIdentity(params) ==
  IF Len(params.inputs) = 0 THEN Fail(params, Abort)
  ELSE [status |-> OK, outputs |-> <<params.inputs[1]>>, net |-> params.net]

\* tensorflow::Status ConvertActivation(OpConverterParams* params)
\* inputs.at(0) throws on an empty list, tensor() of a weights value and
\* the dereference of its null tensor do not return.
ConvertActivation(params) ==
  IF Len(params.inputs) = 0 THEN Fail(params, Abort)
  ELSE IF ~params.inputs[1].is_tensor THEN Fail(params, Abort)
  ELSE IF params.ext.null_layer THEN Fail(params, "Internal")
  ELSE LET in == params.net.tensors[params.inputs[1].tensor]
           t == NewTensor(AddLayer(params.net, "Activation"),
                          params.ext.fresh_name, in.dims)
       IN [status |-> OK,
           outputs |-> <<TensorValue(t.tensor, UnknownBatchSize)>>,
           net |-> t.net]

\* The outputs of a plugin layer: getNbOutputs() tensors, in order.
RECURSIVE PluginOutputs(_, _, _, _)
PluginOutputs(net, fresh_name, n, outputs) ==
  IF n = 0 THEN [outputs |-> outputs, net |-> net]
  ELSE LET t == NewTensor(net, fresh_name, <<>>)
       IN PluginOutputs(t.net, fresh_name, n - 1,
                        Append(outputs, TensorValue(t.tensor, UnknownBatchSize)))

\* tensorflow::Status ConvertPlugin(OpConverterParams* params)
\* input.tensor() of a weights value does not return; a null layer from
\* addPlugin is dereferenced by layer->getNbOutputs().
ConvertPlugin(params) ==
  IF \E i \in 1..Len(params.inputs) : ~params.inputs[i].is_tensor
  THEN Fail(params, Abort)
  ELSE IF DOMAIN params.node_def.attr # {} /\ ~params.ext.set_attribute_ok
  THEN Fail(params, "InvalidArgument")
  ELSE IF params.ext.null_layer THEN Fail(params, Abort)
  ELSE LET o == PluginOutputs(AddLayer(params.net, "Plugin"),
                              params.ext.fresh_name,
                              params.ext.nb_outputs, <<>>)
       IN [status |-> OK, outputs |-> o.outputs, net |-> o.net]

----------------------------------------------------------------------------
(* Conversion functions that the node validator registers too, with the    *)
(* Converter methods they call.  Weights carry the 32-bit words of their   *)
(* buffer in values.  A result with null_deref = TRUE tells that the call  *)
(* went through the null params->converter; what such a call returns, if   *)
(* it returns, is the choice ext.ub.                                       *)

\* int64_t TRT_ShapedWeights::count() const
WeightsCount(weights) == TrtDimsNumElements(weights.shape)

\* nvinfer1::Dims TRT_TensorOrWeights::GetTrtDims() const
GetTrtDims(net, v) ==
  IF v.is_tensor THEN net.tensors[v.tensor].dims ELSE v.weights.shape

\* inline bool DimsEqual(const Dims& dim_l, const Dims& dim_r)
DimsEqual(dim_l, dim_r) ==
  /\ Len(dim_l) = Len(dim_r)
  /\ \A i \in 1..Len(dim_l) : dim_l[i] = dim_r[i]

\* inline bool HasStaticShape(const nvinfer1::Dims& dims)
HasStaticShape(dims) == \A d \in 1..Len(dims) : dims[d] >= 0

HasConverter(params) == params.converter # nullptr

\* A call that goes through the null params->converter.
NullDeref(params) ==
  [status |-> params.ext.ub, outputs |-> <<>>, net |-> params.net,
   null_deref |-> TRUE]

\* Whether a conversion function went through a null params->converter.
WentThroughNull(r) == "null_deref" \in DOMAIN r /\ r.null_deref

\* TransposeTensor leaving the axes in their order.
TransposeTensor_Unpermuted(net, input_tensor, order_with_batch_dim, ext) ==
  LET dims == net.tensors[input_tensor].dims
      t == NewTensor(AddLayer(net, "Shuffle"), ext.fresh_name, dims)
  IN IF Len(order_with_batch_dim) - 1 # Len(dims)
     THEN [status |-> "InvalidArgument", net |-> net, tensor |-> nullptr]
     ELSE IF order_with_batch_dim[1] # 0
     THEN [status |-> "Unimplemented", net |-> net, tensor |-> nullptr]
     ELSE IF ext.null_layer
     THEN [status |-> "Internal", net |-> net, tensor |-> nullptr]
     ELSE [status |-> OK, net |-> t.net, tensor |-> t.tensor]

\* Status Converter::TransposeTensor(ITensor* input_tensor,
\*     const std::vector<int>& order_with_batch_dim, const ITensor** output)
TransposeTensor(net, input_tensor, order_with_batch_dim, ext) ==
  LET dims == net.tensors[input_tensor].dims
      permuted == [i \in 1..Len(dims) |-> dims[order_with_batch_dim[i + 1]]]
      t == NewTensor(AddLayer(net, "Shuffle"), ext.fresh_name, permuted)
  IN IF Len(order_with_batch_dim) - 1 # Len(dims)
     THEN [status |-> "InvalidArgument", net |-> net, tensor |-> nullptr]
     ELSE IF order_with_batch_dim[1] # 0
     THEN [status |-> "Unimplemented", net |-> net, tensor |-> nullptr]
     ELSE IF ext.null_layer
     THEN [status |-> "Internal", net |-> net, tensor |-> nullptr]
     ELSE [status |-> OK, net |-> t.net, tensor |-> t.tensor]

\* PrepareTensorForShape reshaping a tensor that has the target dimensions
\* already.
PrepareTensorForShape_AlwaysReshape(net, input, dims, ext) ==
  LET can_check_shapes == \A i \in 1..Len(dims) : dims[i] # -1
      layer == IF input.is_tensor THEN "Shuffle" ELSE "Constant"
      t == NewTensor(AddLayer(net, layer), ext.fresh_name, dims)
  IN IF can_check_shapes
        /\ TrtDimsNumElements(GetTrtDims(net, input))
             # TrtDimsNumElements(dims)
     THEN [status |-> "InvalidArgument", net |-> net, tensor |-> nullptr]
     ELSE IF ext.null_layer
     THEN [status |-> "Internal", net |-> net, tensor |-> nullptr]
     ELSE [status |-> OK, net |-> t.net, tensor |-> t.tensor]

\* Status Converter::PrepareTensorForShape(const TRT_TensorOrWeights& input,
\*     const nvinfer1::Dims& dims, const nvinfer1::ITensor** tensor)
PrepareTensorForShape(net, input, dims, ext) ==
  LET can_check_shapes == \A i \in 1..Len(dims) : dims[i] # -1
      layer == IF input.is_tensor THEN "Shuffle" ELSE "Constant"
      t == NewTensor(AddLayer(net, layer), ext.fresh_name, dims)
  IN IF can_check_shapes
        /\ TrtDimsNumElements(GetTrtDims(net, input))
             # TrtDimsNumElements(dims)
     THEN [status |-> "InvalidArgument", net |-> net, tensor |-> nullptr]
     ELSE IF input.is_tensor /\ DimsEqual(GetTrtDims(net, input), dims)
     THEN [status |-> OK, net |-> net, tensor |-> input.tensor]
     ELSE IF ext.null_layer
     THEN [status |-> "Internal", net |-> net, tensor |-> nullptr]
     ELSE [status |-> OK, net |-> t.net, tensor |-> t.tensor]

\* The return of a conversion function that pushed tensor to its outputs.
Pushed(status, net, tensor) ==
  [status |-> status,
   outputs |-> IF status = OK THEN <<TensorValue(tensor, UnknownBatchSize)>>
               ELSE <<>>,
   net |-> net]

\* tensorflow::Status ConvertTranspose(OpConverterParams* params)
ConvertTranspose(params) ==
  LET inputs == params.inputs
      weights == inputs[2].weights
      perm == SubSeq(weights.values, 1, WeightsCount(weights))
      input_tensor == inputs[1].tensor
      t == TransposeTensor(params.net, input_tensor, perm, params.ext)
  IN IF Len(inputs) # 2 \/ ~inputs[1].is_tensor \/ inputs[2].is_tensor
     THEN Fail(params, "InvalidArgument")
     ELSE IF Len(perm) - 1 # Len(params.net.tensors[input_tensor].dims)
     THEN Fail(params, "InvalidArgument")
     ELSE IF perm[1] # 0 THEN Fail(params, "Unimplemented")
     ELSE IF params.validation_only THEN Fail(params, OK)
     ELSE IF ~HasConverter(params) THEN NullDeref(params)
     ELSE Pushed(t.status, t.net, t.tensor)

\* tensorflow::Status ConvertReshape(OpConverterParams* params)
ConvertReshape(params) ==
  LET inputs == params.inputs
      input_tensor == inputs[1]
      weights == inputs[2].weights
      input_batch_dim == input_tensor.batch_size
      reshape_batch_dim == weights.values[1]
      input_dims == GetTrtDims(params.net, input_tensor)
      reshape_dims == SubSeq(weights.values, 2, WeightsCount(weights))
      reshape_may_change_batch_dim ==
        IF input_batch_dim > 0
        THEN IF reshape_batch_dim = -1
             THEN \/ ~HasStaticShape(input_dims)
                  \/ TrtDimsNumElements(reshape_dims)
                       # TrtDimsNumElements(input_dims)
             ELSE reshape_batch_dim # input_batch_dim
        ELSE IF HasStaticShape(input_dims)
             THEN \/ ~HasStaticShape(reshape_dims)
                  \/ TrtDimsNumElements(reshape_dims)
                       # TrtDimsNumElements(input_dims)
             ELSE TRUE
      p == PrepareTensorForShape(params.net, input_tensor, reshape_dims,
                                 params.ext)
  IN IF Len(inputs) # 2 \/ inputs[2].is_tensor
     THEN Fail(params, "InvalidArgument")
     ELSE IF WeightsCount(weights) = 0 THEN Fail(params, "Unimplemented")
     ELSE IF reshape_may_change_batch_dim THEN Fail(params, "Unimplemented")
     ELSE IF params.validation_only THEN Fail(params, OK)
     ELSE IF ~HasConverter(params) THEN NullDeref(params)
     ELSE Pushed(p.status, p.net, p.tensor)

\* The operators of the table in ConvertUnary, with Rsqrt.
UnaryOps == {"Neg", "Exp", "Log", "Sqrt", "Abs", "Reciprocal"}

\* tensorflow::Status ConvertUnary(OpConverterParams* params)
ConvertUnary(params) ==
  LET inputs == params.inputs
      op == params.node_def.op
      p == PrepareTensorForShape(params.net, inputs[1],
                                 GetTrtDims(params.net, inputs[1]), params.ext)
      dims == p.net.tensors[p.tensor].dims
      sqrt == NewTensor(AddLayer(p.net, "Unary"), params.ext.fresh_name, dims)
      first == IF op = "Rsqrt" THEN sqrt.net ELSE p.net
      t == NewTensor(AddLayer(first, "Unary"), params.ext.fresh_name, dims)
  IN IF Len(inputs) # 1 THEN Fail(params, "FailedPrecondition")
     ELSE IF ~HasConverter(params) THEN NullDeref(params)
     ELSE IF p.status # OK THEN Pushed(p.status, p.net, nullptr)
     ELSE IF op # "Rsqrt" /\ op \notin UnaryOps
     THEN Pushed("InvalidArgument", p.net, nullptr)
     ELSE IF params.ext.null_layer THEN Pushed("Internal", p.net, nullptr)
     ELSE Pushed(OK, t.net, t.tensor)

\* shape_.d[i] (0-based i - 1) of weights: an entry past nbDims was never
\* written and reads as ext.uninit.
DimOrUninit(shape, i, ext) == IF i <= Len(shape) THEN shape[i] ELSE ext.uninit

\* input_dim padded with 1 up to three dimensions.
PadToThree(dims) == dims \o [i \in 1..(3 - Len(dims)) |-> 1]

\* tensorflow::Status ConvertMatMulHelper(OpConverterParams* params,
\*     TRT_TensorOrWeights tensor_input, TRT_ShapedWeights weights_raw,
\*     bool transpose_weight, string node_name)
\* There is no test of params->validation_only on this path.
ConvertMatMulHelper(params, tensor_input, weights_raw, transpose_weight) ==
  LET noutput == DimOrUninit(weights_raw.shape,
                             IF transpose_weight THEN 1 ELSE 2, params.ext)
      dims == params.net.tensors[tensor_input.tensor].dims
      p1 == PrepareTensorForShape(params.net, tensor_input, PadToThree(dims),
                                  params.ext)
      fc == NewTensor(AddLayer(p1.net, "FullyConnected"),
                      params.ext.fresh_name, <<noutput, 1, 1>>)
      p2 == PrepareTensorForShape(fc.net,
                                  TensorValue(fc.tensor, UnknownBatchSize),
                                  <<noutput>>, params.ext)
  IN IF ~tensor_input.is_tensor THEN Fail(params, "InvalidArgument")
     ELSE IF ~transpose_weight
             /\ weights_raw.type \notin {"DT_FLOAT", "DT_HALF"}
     THEN Fail(params, Abort)
     ELSE IF Len(dims) > 3 THEN Fail(params, params.ext.ub)
     ELSE IF ~HasConverter(params) THEN NullDeref(params)
     ELSE IF p1.status # OK THEN Pushed(p1.status, p1.net, nullptr)
     ELSE IF params.ext.null_layer THEN Pushed("Internal", p1.net, nullptr)
     ELSE Pushed(p2.status, p2.net, p2.tensor)

\* tensorflow::Status ConvertMatMul(OpConverterParams* params)
\* TFAttrs::get of a missing attribute ends in LOG(FATAL).
ConvertMatMul(params) ==
  LET inputs == params.inputs
      attr == params.node_def.attr
  IN IF Len(inputs) # 2 \/ ~inputs[1].is_tensor \/ inputs[2].is_tensor
     THEN Fail(params, "InvalidArgument")
     ELSE IF "T" \notin DOMAIN attr THEN Fail(params, Abort)
     ELSE IF attr["T"] \notin {"DT_FLOAT", "DT_HALF"}
     THEN Fail(params, "Unimplemented")
     ELSE IF {"transpose_a", "transpose_b"} \ DOMAIN attr # {}
     THEN Fail(params, Abort)
     ELSE IF attr["transpose_a"] THEN Fail(params, "Internal")
     ELSE ConvertMatMulHelper(params, inputs[1], inputs[2].weights,
                              attr["transpose_b"])

----------------------------------------------------------------------------
(* Broadcasting of two operands.  A Dims is the sequence of its first      *)
(* nbDims entries.                                                         *)

\* const int max_nb_dims = nvinfer1::Dims::MAX_DIMS + 1
max_nb_dims == 9

\* l_s after std::fill(l_s, l_s + max_nb_dims, 1) and the memcpy of the
\* operand's entries to l_s + max_d - operand.nbDims (slots 1-based here).
FilledShape(operand, max_d) ==
  [i \in 1..max_nb_dims |->
     IF max_d - Len(operand) < i /\ i <= max_d
     THEN operand[i - (max_d - Len(operand))]
     ELSE 1]

\* Slots that differ make the broadcast fail, whatever their sizes.
Infeasible_Strict(l, r) == l # r

\* (l_s[i] != r_s[i]) && (l_s[i] != 1) && (r_s[i] != 1)
Infeasible(l, r) == l # r /\ l # 1 /\ r # 1

\* The output keeping the batch slot.
StripBatch_Keep(s, max_d) == SubSeq(s, 1, max_d)

\* nbDims = max_d - 1 and memcpy(new_shape->d, s + 1, (max_d - 1) * size)
StripBatch(s, max_d) == SubSeq(s, 2, max_d)

\* bool TensorRTGetBroadcastShape(operand_l, operand_l_is_tensor, operand_r,
\*     operand_r_is_tensor, operand_l_new_shape, operand_r_new_shape)
\* The output shapes are written on success only.
TensorRTGetBroadcastShape(operand_l, operand_l_is_tensor, operand_r, operand_r_is_tensor) ==
  LET l_d == IF operand_l_is_tensor THEN Len(operand_l) + 1
             ELSE Len(operand_l)
      r_d == IF operand_r_is_tensor THEN Len(operand_r) + 1
             ELSE Len(operand_r)
      max_d == IF l_d > r_d THEN l_d ELSE r_d
      l_filled == FilledShape(operand_l, max_d)
      r_filled == FilledShape(operand_r, max_d)
      l_s == IF operand_l_is_tensor THEN [l_filled EXCEPT ![1] = -1]
             ELSE l_filled
      r_s == IF operand_r_is_tensor THEN [r_filled EXCEPT ![1] = -1]
             ELSE r_filled
  IN IF operand_l_is_tensor /\ max_d # l_d THEN [ok |-> FALSE]
     ELSE IF operand_r_is_tensor /\ max_d # r_d THEN [ok |-> FALSE]
     ELSE IF \E i \in 1..max_d : Infeasible(l_s[i], r_s[i])
     THEN [ok |-> FALSE]
     ELSE [ok |-> TRUE,
           operand_l_new_shape |-> StripBatch(l_s, max_d),
           operand_r_new_shape |-> StripBatch(r_s, max_d)]

----------------------------------------------------------------------------
(* Binary operators, Pad and ConcatV2.  ext.null_kinds holds the kinds of  *)
(* layer whose constructor returns nullptr.  Every tensor of the network   *)
(* is of type kFLOAT and the Converter is built with is_fp16 = false.      *)

\* The answers for a constructor of one kind of layer.
ExtOf(ext, kind) == [ext EXCEPT !.null_layer = kind \in ext.null_kinds]

\* The nvinfer1::DataType ConvertDType gives a supported type.
TrtType(tf_dtype) ==
  CASE tf_dtype = "DT_FLOAT" -> "kFLOAT"
    [] tf_dtype = "DT_INT8" -> "kINT8"
    [] tf_dtype = "DT_HALF" -> "kHALF"
    [] tf_dtype = "DT_INT32" -> "kINT32"

\* A layer of one input added to the network, or Internal on a null layer.
AddUnaryLayer(net, kind, tensor, ext) ==
  LET t == NewTensor(AddLayer(net, kind), ext.fresh_name,
                     net.tensors[tensor].dims)
  IN IF ext.null_layer
     THEN [status |-> "Internal", net |-> net, tensor |-> nullptr]
     ELSE [status |-> OK, net |-> t.net, tensor |-> t.tensor]

\* Every IScaleLayer built per channel.
ScaleLayer_PerChannel(mode) == "Scale_kCHANNEL"

\* An IScaleLayer with its nvinfer1::ScaleMode, as a kind of layer.
ScaleLayer(mode) ==
  CASE mode = "kUNIFORM" -> "Scale_kUNIFORM"
    [] mode = "kCHANNEL" -> "Scale_kCHANNEL"
    [] mode = "kELEMENTWISE" -> "Scale_kELEMENTWISE"

\* The scale mode BinaryTensorOpWeight selects for weights against dims_t,
\* or InvalidArgument; permutation_flag tells whether the last axis is
\* swapped into the channel axis.
ScaleMode(weights, dims_t) ==
  LET shape == weights.shape
      batched == Len(shape) = Len(dims_t) + 1
      dims_w == IF batched /\ shape[1] = 1 THEN Tail(shape) ELSE shape
      matching == Len(dims_w) = Len(dims_t) /\ dims_w[1] = dims_t[1]
      last_axis == Len(dims_w) = 1 /\ dims_w[1] = dims_t[Len(dims_t)]
      Is(mode, flag) == [mode |-> mode, permutation_flag |-> flag]
  IN IF WeightsCount(weights) = 1 THEN Is("kUNIFORM", FALSE)
     ELSE IF batched /\ shape[1] # 1 THEN Is("InvalidArgument", FALSE)
     ELSE IF matching
     THEN IF \A i \in 2..Len(dims_w) : dims_w[i] = dims_t[i]
          THEN Is("kELEMENTWISE", FALSE)
          ELSE IF \A i \in 2..Len(dims_w) : dims_w[i] = 1
          THEN Is("kCHANNEL", FALSE)
          ELSE Is("InvalidArgument", FALSE)
     ELSE IF last_axis THEN Is("kCHANNEL", TRUE)
     ELSE Is("InvalidArgument", FALSE)

\* tensorflow::Status BinaryTensorOpWeight(OpConverterParams* params,
\*     const ITensor* tensor, TRT_ShapedWeights weights, bool swapped_inputs)
\* The steps are written innermost last: each takes what the step before
\* it left.  mode is the scale mode handed to addScale ("none" if addScale
\* was not reached).
BinaryTensorOpWeight(params, tensor, weights, swapped_inputs) ==
  LET op == params.node_def.op
      ext == params.ext
      n == Len(params.net.tensors[tensor].dims)
      permutation == [i \in 1..(n + 1) |->
                        IF i = 2 THEN n ELSE IF i = n + 1 THEN 1 ELSE i - 1]
      inverts == op \in {"Sub", "Div", "RealDiv"}
      Ret(status, net, outputs, mode) ==
        [status |-> status, net |-> net, outputs |-> outputs, mode |-> mode]
      \* params->outputs->push_back(output_tensor)
      Pass(sm, last) ==
        IF last.status # OK THEN Ret(last.status, last.net, <<>>, sm.mode)
        ELSE Ret(OK, last.net,
                 <<TensorValue(last.tensor, UnknownBatchSize)>>, sm.mode)
      \* transpose back dimension
      Back(sm, scale) ==
        IF scale.status # OK THEN Ret(scale.status, scale.net, <<>>, sm.mode)
        ELSE Pass(sm, IF sm.permutation_flag
                      THEN TransposeTensor(scale.net, scale.tensor,
                                           permutation, ExtOf(ext, "Shuffle"))
                      ELSE scale)
      \* addScale
      Scale(sm, unary) ==
        IF unary.status # OK THEN Ret(unary.status, unary.net, <<>>, "none")
        ELSE Back(sm, AddUnaryLayer(unary.net, ScaleLayer(sm.mode),
                                    unary.tensor, ExtOf(ext, "Scale")))
      \* prepare weights: addUnary on the tensor or UnaryCompute on the
      \* weights
      Prepare(sm, first) ==
        IF first.status # OK THEN Ret(first.status, first.net, <<>>, "none")
        ELSE Scale(sm, IF swapped_inputs /\ inverts
                       THEN AddUnaryLayer(first.net, "Unary", first.tensor,
                                          ExtOf(ext, "Unary"))
                       ELSE [status |->
                               IF /\ inverts
                                  /\ weights.type \notin {"DT_FLOAT",
                                                          "DT_HALF"}
                               THEN "Unimplemented" ELSE OK,
                             net |-> first.net, tensor |-> first.tensor])
      \* transpose last dimension
      Transpose(sm) ==
        IF sm.mode = "InvalidArgument"
        THEN Ret("InvalidArgument", params.net, <<>>, "none")
        ELSE IF sm.permutation_flag /\ ~(sm.mode = "kCHANNEL" /\ n > 1)
        THEN Ret("InvalidArgument", params.net, <<>>, "none")
        ELSE Prepare(sm, IF sm.permutation_flag
                         THEN TransposeTensor(params.net, tensor, permutation,
                                              ExtOf(ext, "Shuffle"))
                         ELSE [status |-> OK, net |-> params.net,
                               tensor |-> tensor])
  IN IF op \notin {"Sub", "Add", "Mul", "Div", "RealDiv"}
     THEN Ret("Unimplemented", params.net, <<>>, "none")
     ELSE IF ConvertDType(weights.type) # OK
     THEN Ret(ConvertDType(weights.type), params.net, <<>>, "none")
     ELSE IF n # 3 THEN Ret("InvalidArgument", params.net, <<>>, "none")
     ELSE Transpose(ScaleMode(weights, params.net.tensors[tensor].dims))

\* The operators of the table in BinaryTensorOpTensor.
ElementWiseOps ==
  {"Add", "Mul", "Sub", "Div", "RealDiv", "Minimum", "Maximum"}

\* tensorflow::Status BinaryTensorOpTensor(OpConverterParams* params,
\*     const TRT_TensorOrWeights& operand_l,
\*     const TRT_TensorOrWeights& operand_r)
\* A failed TFTRT_CHECK_EQ_TYPE ends the process.
BinaryTensorOpTensor(params, operand_l, operand_r) ==
  LET ext == params.ext
      Kind(v) == IF v.is_tensor THEN "Shuffle" ELSE "Constant"
      TypeOf(v) == IF v.is_tensor THEN "kFLOAT" ELSE TrtType(v.weights.type)
      dtype == TrtType(params.node_def.attr["T"])
      Ret(status, net, outputs) ==
        [status |-> status, net |-> net, outputs |-> outputs]
      Pass(t) == Ret(OK, t.net, <<TensorValue(t.tensor, UnknownBatchSize)>>)
      \* addElementWise
      ElementWise(b, r) ==
        IF r.status # OK THEN Ret(r.status, r.net, <<>>)
        ELSE IF TypeOf(operand_l) # dtype \/ TypeOf(operand_r) # dtype
        THEN Ret(Abort, r.net, <<>>)
        ELSE IF params.node_def.op \notin ElementWiseOps
        THEN Ret("Unimplemented", r.net, <<>>)
        ELSE IF "ElementWise" \in ext.null_kinds
        THEN Ret("Internal", r.net, <<>>)
        ELSE Pass(NewTensor(
                    AddLayer(r.net, "ElementWise"), ext.fresh_name,
                    [i \in 1..Len(b.operand_l_new_shape) |->
                       IF b.operand_l_new_shape[i] > b.operand_r_new_shape[i]
                       THEN b.operand_l_new_shape[i]
                       ELSE b.operand_r_new_shape[i]]))
      Right(b, l) ==
        IF l.status # OK THEN Ret(l.status, l.net, <<>>)
        ELSE ElementWise(b, PrepareTensorForShape(
                              l.net, operand_r, b.operand_r_new_shape,
                              ExtOf(ext, Kind(operand_r))))
      Left(b) ==
        IF ~b.ok THEN Ret("InvalidArgument", params.net, <<>>)
        ELSE Right(b, PrepareTensorForShape(
                        params.net, operand_l, b.operand_l_new_shape,
                        ExtOf(ext, Kind(operand_l))))
  IN Left(TensorRTGetBroadcastShape(
            GetTrtDims(params.net, operand_l), operand_l.is_tensor,
            GetTrtDims(params.net, operand_r), operand_r.is_tensor))

\* ConvertBinary running the elementwise path for two tensors only.
NeedsElementWise_TensorsOnly(l_is_tensor, r_is_tensor, status_ok) ==
  l_is_tensor /\ r_is_tensor

\* if ((inputs.at(0).is_tensor() && inputs.at(1).is_tensor()) ||
\*     !status.ok())
NeedsElementWise(l_is_tensor, r_is_tensor, status_ok) ==
  (l_is_tensor /\ r_is_tensor) \/ ~status_ok

\* tensorflow::Status ConvertBinary(OpConverterParams* params)
\* scale and elementwise are the statuses of the two paths ("none" for a
\* path that was not run), mode the scale mode handed to addScale.
ConvertBinary(params) ==
  LET inputs == params.inputs
      Rejected(status) ==
        [status |-> status, net |-> params.net, outputs |-> <<>>,
         scale |-> "none", mode |-> "none", elementwise |-> "none"]
      Both(scale, generic) ==
        [status |-> IF generic.status = "none" THEN scale.status
                    ELSE generic.status,
         net |-> generic.net,
         outputs |-> scale.outputs \o generic.outputs,
         scale |-> scale.status, mode |-> scale.mode,
         elementwise |-> generic.status]
      ElementWise(scale) ==
        Both(scale,
             IF NeedsElementWise(inputs[1].is_tensor, inputs[2].is_tensor,
                                 scale.status \in {"none", OK})
             THEN BinaryTensorOpTensor([params EXCEPT !.net = scale.net],
                                       inputs[1], inputs[2])
             ELSE [status |-> "none", net |-> scale.net, outputs |-> <<>>])
  IN IF Len(inputs) # 2 THEN Rejected("FailedPrecondition")
     ELSE IF ~inputs[1].is_tensor /\ ~inputs[2].is_tensor
     THEN Rejected("Unimplemented")
     ELSE ElementWise(
            IF inputs[1].is_tensor /\ ~inputs[2].is_tensor
            THEN BinaryTensorOpWeight(params, inputs[1].tensor,
                                      inputs[2].weights, FALSE)
            ELSE IF ~inputs[1].is_tensor /\ inputs[2].is_tensor
            THEN BinaryTensorOpWeight(params, inputs[2].tensor,
                                      inputs[1].weights, TRUE)
            ELSE [status |-> "none", net |-> params.net, outputs |-> <<>>,
                  mode |-> "none"])

\* std::vector<int32_t> pad_index: the axes (0-based) with a non-zero
\* amount, in increasing order.
RECURSIVE PadIndexFrom(_, _, _)
PadIndexFrom(pad_data, nb_dims, i) ==
  IF i >= nb_dims THEN <<>>
  ELSE IF pad_data[2 * i + 1] # 0 \/ pad_data[2 * i + 2] # 0
  THEN <<i>> \o PadIndexFrom(pad_data, nb_dims, i + 1)
  ELSE PadIndexFrom(pad_data, nb_dims, i + 1)

\* The loop of ConvertPad that fills pre_padding and post_padding, from
\* entry i (1-based) of pad_index on; p holds both as (h, w) pairs.
RECURSIVE PadAmounts(_, _, _, _, _)
PadAmounts(pad_data, pad_index, permuted_pad_index, i, p) ==
  IF i > Len(pad_index) THEN p
  ELSE LET before == pad_data[pad_index[i] * 2 + 1]
           after == pad_data[pad_index[i] * 2 + 2]
           axis == permuted_pad_index[i] - 1
       IN PadAmounts(pad_data, pad_index, permuted_pad_index, i + 1,
                     IF permuted_pad_index[i] \in {2, 3}
                     THEN [pre_padding |-> [p.pre_padding
                                              EXCEPT ![axis] = before],
                           post_padding |-> [p.post_padding
                                               EXCEPT ![axis] = after]]
                     ELSE p)

\* tensorflow::Status ConvertPad(OpConverterParams* params)
\* built tells whether addPadding gave a layer, pre_padding and
\* post_padding are the (h, w) pairs handed to it, transposed tells whether
\* the input went through {0, 3, 2, 1} before.
ConvertPad(params) ==
  LET inputs == params.inputs
      ext == params.ext
      tensor == inputs[1].tensor
      nb_dims == Len(params.net.tensors[tensor].dims) + 1
      pads == inputs[2].weights
      Ret(status, net, outputs, built, transposed, p) ==
        [status |-> status, net |-> net, outputs |-> outputs,
         built |-> built, pre_padding |-> p.pre_padding,
         post_padding |-> p.post_padding, transposed |-> transposed]
      none == [pre_padding |-> <<0, 0>>, post_padding |-> <<0, 0>>]
      Rejected(status) == Ret(status, params.net, <<>>, FALSE, FALSE, none)
      Pass(legit_pad, p, last) ==
        IF last.status # OK
        THEN Ret(last.status, last.net, <<>>, TRUE, ~legit_pad, p)
        ELSE Ret(OK, last.net,
                 <<TensorValue(last.tensor, UnknownBatchSize)>>, TRUE,
                 ~legit_pad, p)
      Back(legit_pad, p, t) ==
        Pass(legit_pad, p,
             IF legit_pad
             THEN [status |-> OK, net |-> t.net, tensor |-> t.tensor]
             ELSE TransposeTensor(t.net, t.tensor, <<0, 3, 2, 1>>,
                                  ExtOf(ext, "Shuffle")))
      PaddedDims(dims, p) ==
        [i \in 1..Len(dims) |->
           IF i = Len(dims) - 1
           THEN dims[i] + p.pre_padding[1] + p.post_padding[1]
           ELSE IF i = Len(dims)
           THEN dims[i] + p.pre_padding[2] + p.post_padding[2]
           ELSE dims[i]]
      \* addPadding
      Padding(legit_pad, p, first) ==
        IF first.status # OK
        THEN Ret(first.status, first.net, <<>>, FALSE, ~legit_pad, p)
        ELSE IF "Padding" \in ext.null_kinds
        THEN Ret("Internal", first.net, <<>>, FALSE, ~legit_pad, p)
        ELSE Back(legit_pad, p,
                  NewTensor(AddLayer(first.net, "Padding"), ext.fresh_name,
                            PaddedDims(first.net.tensors[first.tensor].dims,
                                       p)))
      Amounts(pad_index, permuted_pad_index) ==
        Padding(pad_index[1] # 1,
                PadAmounts(pads.values, pad_index, permuted_pad_index, 1,
                           none),
                IF pad_index[1] = 1
                THEN TransposeTensor(params.net, tensor, <<0, 3, 2, 1>>,
                                     ExtOf(ext, "Shuffle"))
                ELSE [status |-> OK, net |-> params.net, tensor |-> tensor])
      Checked(pad_index) ==
        IF Len(pad_index) = 0
        THEN Ret(OK, params.net, <<inputs[1]>>, FALSE, FALSE, none)
        ELSE IF Len(pad_index) > 2 THEN Rejected("InvalidArgument")
        ELSE IF pad_index[1] = 0 THEN Rejected("InvalidArgument")
        ELSE IF Len(pad_index) = 2 /\ pad_index[1] = 0 /\ pad_index[2] = 3
        THEN Rejected("Unimplemented")
        ELSE Amounts(pad_index,
                     IF pad_index[1] = 1 THEN [pad_index EXCEPT ![1] = 3]
                     ELSE pad_index)
  IN IF Len(inputs) # 2 \/ ~inputs[1].is_tensor \/ inputs[2].is_tensor
     THEN Rejected("InvalidArgument")
     ELSE IF pads.shape[1] # nb_dims \/ pads.shape[2] # 2
     THEN Rejected("InvalidArgument")
     ELSE IF params.node_def.attr["Tpaddings"] # "DT_INT32"
     THEN Rejected("Unimplemented")
     ELSE Checked(PadIndexFrom(pads.values, nb_dims, 0))

\* The dimensions of a concatenation along axis (0-based, without batch);
\* an axis that is none of the inputs' leaves them as they are.
RECURSIVE ConcatDims(_, _, _, _)
ConcatDims(net, inputs, input_size, axis) ==
  LET dims == net.tensors[inputs[input_size].tensor].dims
  IN IF input_size = 1 THEN dims
     ELSE LET rest == ConcatDims(net, inputs, input_size - 1, axis)
          IN [j \in 1..Len(rest) |->
                IF j = axis + 1 THEN rest[j] + dims[j] ELSE rest[j]]

\* tensorflow::Status ConvertConcat(OpConverterParams* params)
\* built tells whether addConcatenation gave a layer, axis is the value
\* handed to setAxis.
ConvertConcat(params) ==
  LET inputs == params.inputs
      input_size == Len(inputs) - 1
      dim == params.net.tensors[inputs[1].tensor].dims
      DimOf(i) == params.net.tensors[inputs[i].tensor].dims
      Ret(status, net, outputs, built, index) ==
        [status |-> status, net |-> net, outputs |-> outputs,
         built |-> built, axis |-> index - 1]
      Pass(t, index) ==
        Ret(OK, t.net, <<TensorValue(t.tensor, UnknownBatchSize)>>, TRUE,
            index)
      Checked(index) ==
        IF \E i \in 1..input_size :
             \/ Len(DimOf(i)) # Len(dim)
             \/ \E j \in 1..Len(dim) : j # index /\ DimOf(i)[j] # dim[j]
        THEN Ret("InvalidArgument", params.net, <<>>, FALSE, index)
        ELSE IF "Concatenation" \in params.ext.null_kinds
        THEN Ret("Internal", params.net, <<>>, FALSE, index)
        ELSE Pass(NewTensor(AddLayer(params.net, "Concatenation"),
                            params.ext.fresh_name,
                            ConcatDims(params.net, inputs, input_size,
                                       index - 1)),
                  index)
      Given(index) ==
        IF index > Len(dim) + 1
        THEN Ret("InvalidArgument", params.net, <<>>, FALSE, index)
        ELSE IF index = 0
        THEN Ret("InvalidArgument", params.net, <<>>, FALSE, index)
        ELSE Checked(IF index < 0 THEN Len(dim) + index + 1 ELSE index)
  IN IF ~inputs[1].is_tensor
     THEN Ret("InvalidArgument", params.net, <<>>, FALSE, 0)
     ELSE IF params.node_def.attr["Tidx"] # "DT_INT32"
     THEN Ret("Unimplemented", params.net, <<>>, FALSE, 0)
     ELSE Given(inputs[input_size + 1].weights.values[1])

----------------------------------------------------------------------------
(* Operator registries.                                                    *)

\* void Converter::RegisterOpConverters(): op_registry_
op_registry_ ==
  [Conv2D |-> "ConvertConv2D",
   DepthwiseConv2dNative |-> "ConvertConv2DDepthwise",
   Relu |-> "ConvertActivation",
   MaxPool |-> "ConvertPool",
   AvgPool |-> "ConvertPool",
   BiasAdd |-> "ConvertScale",
   Const |-> "ConvertConst",
   Identity |-> "ConvertIdentity",
   Snapshot |-> "ConvertIdentity",
   Add |-> "ConvertBinary",
   Mul |-> "ConvertBinary",
   Sub |-> "ConvertBinary",
   Pad |-> "ConvertPad",
   ConcatV2 |-> "ConvertConcat",
   FusedBatchNorm |-> "ConvertFusedBatchNorm",
   FusedBatchNormV2 |-> "ConvertFusedBatchNorm",
   Div |-> "ConvertBinary",
   RealDiv |-> "ConvertBinary",
   Rsqrt |-> "ConvertUnary",
   Reciprocal |-> "ConvertUnary",
   Exp |-> "ConvertUnary",
   Log |-> "ConvertUnary",
   Sqrt |-> "ConvertUnary",
   Abs |-> "ConvertUnary",
   Neg |-> "ConvertUnary",
   Transpose |-> "ConvertTranspose",
   Reshape |-> "ConvertReshape",
   Sum |-> "ConvertReduce",
   Prod |-> "ConvertReduce",
   Max |-> "ConvertReduce",
   Min |-> "ConvertReduce",
   Mean |-> "ConvertReduce",
   Maximum |-> "ConvertBinary",
   Minimum |-> "ConvertBinary",
   Softmax |-> "ConvertSoftmax",
   MatMul |-> "ConvertMatMul",
   BatchMatMul |-> "ConvertBatchMatMul",
   TopKV2 |-> "ConvertTopK"]

\* void Converter::RegisterOpConverters(): plugin_converter_
plugin_converter_ == "ConvertPlugin"

\* PluginFactoryTensorRT::GetInstance()->IsPlugin(op)
IsPlugin(registered, op) == op \in registered

\* The call op_converter(&params) for the conversion functions modelled here.
CallConverter(fn, params) ==
  CASE fn = "ConvertConst" -> ConvertConst(params)
    [] fn = "ConvertIdentity" -> ConvertIdentity(params)
    [] fn = "ConvertActivation" -> ConvertActivation(params)
    [] fn = "ConvertPlugin" -> ConvertPlugin(params)
    [] fn = "ConvertTranspose" -> ConvertTranspose(params)
    [] fn = "ConvertReshape" -> ConvertReshape(params)
    [] fn = "ConvertUnary" -> ConvertUnary(params)
    [] fn = "ConvertMatMul" -> ConvertMatMul(params)
    [] fn = "ConvertBinary" -> ConvertBinary(params)
    [] fn = "ConvertPad" -> ConvertPad(params)
    [] fn = "ConvertConcat" -> ConvertConcat(params)

\* The conversion functions CallConverter translates.
ModelledConverters ==
  {"ConvertConst", "ConvertIdentity", "ConvertActivation", "ConvertPlugin",
   "ConvertTranspose", "ConvertReshape", "ConvertUnary", "ConvertMatMul",
   "ConvertBinary", "ConvertPad", "ConvertConcat"}

----------------------------------------------------------------------------
(* TrtNodeValidator.                                                       *)

\* void TrtNodeValidator::RegisterOpValidators(): op_validators_
op_validators_ ==
  [Const |-> "ConvertConst",
   Transpose |-> "ConvertTranspose",
   Reshape |-> "ConvertReshape",
   MatMul |-> "ConvertMatMul"]

\* ValidateNode turning an Unimplemented verdict into OK.
ValidateNode_Lenient(node_def, inputs, net, ext) ==
  LET Verdict(r) ==
        [status |-> IF r.status = "Unimplemented" THEN OK ELSE r.status,
         invoked |-> op_validators_[node_def.op],
         outputs |-> r.outputs, net |-> r.net,
         null_deref |-> WentThroughNull(r)]
  IN IF node_def.op \notin DOMAIN op_validators_
     THEN [status |-> OK, invoked |-> "none", outputs |-> <<>>, net |-> net,
           null_deref |-> FALSE]
     ELSE Verdict(CallConverter(op_validators_[node_def.op],
                                Params(node_def, inputs, TRUE, net, ext)))

\* Status TrtNodeValidator::ValidateNode(const NodeDef& node_def,
\*     const std::vector<TRT_TensorOrWeights>& inputs)
\* net holds the tensors the inputs refer to; there is no Converter.
ValidateNode(node_def, inputs, net, ext) ==
  LET Verdict(r) ==
        [status |-> r.status, invoked |-> op_validators_[node_def.op],
         outputs |-> r.outputs, net |-> r.net,
         null_deref |-> WentThroughNull(r)]
  IN IF node_def.op \notin DOMAIN op_validators_
     THEN [status |-> OK, invoked |-> "none", outputs |-> <<>>, net |-> net,
           null_deref |-> FALSE]
     ELSE Verdict(CallConverter(op_validators_[node_def.op],
                                Params(node_def, inputs, TRUE, net, ext)))

----------------------------------------------------------------------------
(* Converter: the per-node driver.                                         *)

\* The name under which ConvertNode binds output i (0-based) of a node.
OutputName(node_name, i) ==
  IF i # 0 THEN StrCatColon(node_name, i) ELSE node_name

\* ConvertNode naming every tensor output after the node.
NameOutput_Always(net, output, output_name) ==
  IF output.is_tensor THEN SetName(net, output.tensor, output_name) ELSE net

\* ConvertNode names a tensor output after the node only if it has no name.
NameOutput(net, output, output_name) ==
  IF output.is_tensor /\ IsUnnamed(net.tensors[output.tensor].name)
  THEN SetName(net, output.tensor, output_name)
  ELSE net

\* The output loop ending one output early.
OutputsDone_Early(outputs, i) == i + 1 >= Len(outputs)

\* The condition that ends the output loop: i < outputs.size() is false.
OutputsDone(outputs, i) == i >= Len(outputs)

\* The output loop of Converter::ConvertNode, from output i (0-based) on.
RECURSIVE AddOutputs(_, _, _, _)
AddOutputs(cv, node_def, outputs, i) ==
  IF OutputsDone(outputs, i) THEN [cv |-> cv, status |-> OK, bound |-> i]
  ELSE
    LET output == outputs[i + 1]
        output_name == OutputName(node_def.name, i)
        named == [cv EXCEPT !.network = NameOutput(@, output, output_name)]
        added == AddTensorOrWeights(named, output_name, output)
    IN IF added.status # OK
       THEN [cv |-> added.cv, status |-> added.status, bound |-> i]
       ELSE AddOutputs(added.cv, node_def, outputs, i + 1)

\* ConvertNode consulting the built-in registry before the plugin factory.
SelectConverter_BuiltinFirst(registered, op) ==
  IF op \in DOMAIN op_registry_ THEN op_registry_[op]
  ELSE IF IsPlugin(registered, op) THEN plugin_converter_
  ELSE "none"

\* The conversion function ConvertNode calls for an operator: the plugin
\* converter if the factory knows the operator, else the registry's entry,
\* else none.
SelectConverter(registered, op) ==
  IF IsPlugin(registered, op) THEN plugin_converter_
  ELSE IF op \in DOMAIN op_registry_ THEN op_registry_[op]
  ELSE "none"

\* Status Converter::ConvertNode(const NodeDef& node_def)
\* invoked is the conversion function that was called ("none" if none was),
\* inputs what GetInputs resolved, outputs what the function produced, bound
\* the number of outputs entered into the symbol table, failed the step
\* that returned the error.
ConvertNode(cv, registered, node_def, ext) ==
  LET fn == SelectConverter(registered, node_def.op)
      Bound(in, r, o) ==
        [cv |-> o.cv, status |-> o.status, invoked |-> fn,
         inputs |-> in.inputs, outputs |-> r.outputs, bound |-> o.bound,
         failed |-> IF o.status # OK THEN "AddTensorOrWeights" ELSE "none"]
      Converted(in, r) ==
        IF r.status # OK
        THEN [cv |-> [cv EXCEPT !.network = r.net], status |-> r.status,
              invoked |-> fn, inputs |-> in.inputs, outputs |-> <<>>,
              bound |-> 0, failed |-> "converter"]
        ELSE Bound(in, r, AddOutputs([cv EXCEPT !.network = r.net],
                                     node_def, r.outputs, 0))
      Resolved(in) ==
        IF in.status # OK
        THEN [cv |-> cv, invoked |-> "none", inputs |-> in.inputs,
              outputs |-> <<>>, bound |-> 0, status |-> in.status,
              failed |-> "GetInputs"]
        ELSE IF fn = "none"
        THEN [cv |-> cv, invoked |-> "none", inputs |-> in.inputs,
              outputs |-> <<>>, bound |-> 0, status |-> "Unimplemented",
              failed |-> "registry"]
        ELSE Converted(in, CallConverter(fn, Params(node_def, in.inputs,
                                                    FALSE, cv.network, ext)))
  IN Resolved(GetInputs(cv, node_def))

\* AddInputTensor creating the accelerator input before it reconciles the
\* batch size.
AddInputTensor_CreateFirst(cv, name, dims, batch_size, ext) ==
  LET t == NewTensor(cv.network, Name(name), dims)
      m == MaybeUpdateBatchSize([cv EXCEPT !.network = t.net], batch_size)
      a == AddTensorOrWeights(m.cv, name,
                              TensorValue(t.tensor, UnknownBatchSize))
  IN IF ext.null_input
     THEN [cv |-> cv, status |-> "InvalidArgument", created |-> FALSE]
     ELSE IF m.status # OK
     THEN [cv |-> m.cv, status |-> m.status, created |-> TRUE]
     ELSE [cv |-> a.cv, status |-> a.status, created |-> TRUE]

\* Status Converter::AddInputTensor(const string& name, DataType dtype,
\*                                  const Dims& dims, int batch_size)
\* created tells whether network()->addInput was called and gave a tensor.
AddInputTensor(cv, name, dims, batch_size, ext) ==
  LET m == MaybeUpdateBatchSize(cv, batch_size)
      t == NewTensor(m.cv.network, Name(name), dims)
      a == AddTensorOrWeights([m.cv EXCEPT !.network = t.net], name,
                              TensorValue(t.tensor, UnknownBatchSize))
  IN IF m.status # OK
     THEN [cv |-> m.cv, status |-> m.status, created |-> FALSE]
     ELSE IF ext.null_input
     THEN [cv |-> m.cv, status |-> "InvalidArgument", created |-> FALSE]
     ELSE [cv |-> a.cv, status |-> a.status, created |-> TRUE]

\* Status Converter::RenameAndMarkOutputTensors(
\*     const std::vector<std::pair<string, string>>& output_tensors)
\* marked is the number of pairs renamed and marked.
RECURSIVE RenameAndMarkFrom(_, _, _)
RenameAndMarkFrom(cv, pairs, k) ==
  IF k > Len(pairs) THEN [cv |-> cv, status |-> OK, marked |-> k - 1]
  ELSE
    LET g == GetTensorOrWeights(cv, pairs[k].first)
        tensor == g.output.tensor
    IN IF g.status # OK
       THEN [cv |-> cv, status |-> g.status, marked |-> k - 1]
       ELSE IF ~g.output.is_tensor
       THEN [cv |-> cv, status |-> "InvalidArgument", marked |-> k - 1]
       ELSE IF tensor = nullptr
       THEN [cv |-> cv, status |-> "NotFound", marked |-> k - 1]
       ELSE RenameAndMarkFrom(
              [cv EXCEPT !.network =
                 MarkOutput(SetName(@, tensor, pairs[k].second), tensor)],
              pairs, k + 1)

\* RenameAndMarkOutputTensors starting at the second pair.
RenameAndMarkOutputTensors_SkipFirst(cv, pairs) ==
  RenameAndMarkFrom(cv, pairs, 2)

RenameAndMarkOutputTensors(cv, pairs) == RenameAndMarkFrom(cv, pairs, 1)

----------------------------------------------------------------------------
(* Inputs of the model.                                                    *)

NameA == <<"a">>
NameB == <<"b">>
NameA1 == <<"a", ":", "1">>
NameX == <<"x">>
NameY == <<"y">>

Names == {NameA, NameB, NameA1}

\* Lists for node_def.input(): plain, ":0" and ":1" references and a
\* control input.
InputLists ==
  {<<>>, <<NameA>>, <<NameA \o <<":", "0">> >>, <<NameA1>>,
   <<(<<"^">> \o NameB), NameA>>, <<NameB, NameA>>}

\* Tensor protos of attr "value" of a Const node: a float scalar and a half
\* scalar.
Proto(shape, float_val, half_val, content) ==
  [parse_ok |-> TRUE, shape |-> shape, float_val |-> float_val, int_val |-> 0,
   half_val |-> half_val, content |-> content]

ConstAttrs ==
  {[dtype |-> "DT_FLOAT", value |-> Proto(<<>>, 1, 0, 0)],
   [dtype |-> "DT_HALF", value |-> Proto(<<>>, 0, 1, 0)]}

NoAttr == <<>>

PluginAttrs == {NoAttr, [alpha |-> "list(float)"]}

Node(name, op, input, attr) ==
  [name |-> name, op |-> op, input |-> input, attr |-> attr]

\* The operators a node of the model can carry; "NoOp" is registered nowhere.
ConstNodes(names) ==
  {Node(n, "Const", <<>>, a) : n \in names, a \in ConstAttrs}
  \cup {Node(n, "Const", <<NameA>>, CHOOSE a \in ConstAttrs : TRUE) :
          n \in names}

NodesNamed(names) ==
  ConstNodes(names)
  \cup {Node(n, "Identity", i, NoAttr) : n \in names, i \in InputLists}
  \cup {Node(n, "Relu", i, NoAttr) : n \in names,
                                     i \in {<<NameA>>, <<NameB, NameA>>}}
  \cup {Node(n, "MyPlugin", <<>>, a) : n \in names, a \in PluginAttrs}
  \cup {Node(n, "MyPlugin", <<NameA>>, NoAttr) : n \in names}
  \cup {Node(n, "NoOp", i, NoAttr) : n \in names, i \in {<<>>, <<NameA>>}}

Nodes == NodesNamed({NameA, NameB})

\* Registrations the plugin factory can hold when conversion starts.
PluginSets == {{"MyPlugin"}, {"MyPlugin", "Relu"}}

MaxPluginOutputs == 2

\* Answers of the accelerator API during one call: whether a layer
\* constructor (addInput) returns null, the name a new tensor reports, the
\* number of outputs of a plugin layer, the result of SetAttribute.
Ext(null_layer, fresh_name, nb_outputs, set_attribute_ok, null_input) ==
  [null_layer |-> null_layer, fresh_name |-> fresh_name,
   nb_outputs |-> nb_outputs, set_attribute_ok |-> set_attribute_ok,
   null_input |-> null_input]

FreshNames == {NullName, Name(<<>>)}

ExtDefault == Ext(FALSE, NullName, 1, TRUE, FALSE)

\* The answers that matter to the conversion of one node.
ExtFor(registered, node_def) ==
  IF IsPlugin(registered, node_def.op)
  THEN {Ext(FALSE, NullName, 1, FALSE, FALSE), Ext(TRUE, NullName, 1, TRUE, FALSE)}
       \cup {Ext(FALSE, NullName, n, TRUE, FALSE) : n \in 0..MaxPluginOutputs}
  ELSE IF node_def.op = "Relu"
  THEN {Ext(TRUE, NullName, 1, TRUE, FALSE)}
       \cup {Ext(FALSE, f, 1, TRUE, FALSE) : f \in FreshNames}
  ELSE {ExtDefault}

BatchSizes == -1..MaxBatch

InputDims == {<<2>>}

\* Values a caller can hand to AddTensorOrWeights: weights, or a tensor of
\* the network.
Values(net) ==
  {WeightsValue([type |-> "DT_FLOAT", shape |-> <<1>>])}
  \cup {TensorValue(t, UnknownBatchSize) : t \in 1..Len(net.tensors)}

Pair(first, second) == [first |-> first, second |-> second]

OutputPairs == {Pair(NameA, NameX), Pair(NameA1, NameY), Pair(NameB, NameY)}

OutputLists ==
  {<<>>} \cup {<<p>> : p \in OutputPairs}
  \cup {<<p, q>> : p \in OutputPairs, q \in OutputPairs}

----------------------------------------------------------------------------
(* The Converter driven call by call (as its unit tests drive it).         *)

cur == Conv(batch_size_, trt_tensors_, network)

\* The effect of a call on the Converter.
Becomes(cv) ==
  /\ batch_size_' = cv.batch_size_
  /\ trt_tensors_' = cv.trt_tensors_
  /\ network' = cv.network

CanCall == pc = "api" /\ ret.n < MaxCalls /\ ret.status # Abort

\* Converter::Converter(trt_network, is_fp16)
Init ==
  /\ batch_size_ = UnknownBatchSize
  /\ trt_tensors_ = <<>>
  /\ network = EmptyNetwork
  /\ plugins \in PluginSets
  /\ ret = [op |-> "Converter", n |-> 0, status |-> OK]
  /\ pc = "api"
  /\ gdef = <<>>
  /\ input_shapes = <<>>
  /\ node_idx = 0
  /\ output_tensors = <<>>
  /\ engine = "null"
  /\ convert_successfully = FALSE
  /\ result = OK

CallMaybeUpdateBatchSize ==
  /\ CanCall
  /\ \E batch_size \in BatchSizes :
       LET r == MaybeUpdateBatchSize(cur, batch_size)
       IN /\ Becomes(r.cv)
          /\ ret' = [op |-> "MaybeUpdateBatchSize", n |-> ret.n + 1,
                     status |-> r.status, batch_size |-> batch_size]
  /\ UNCHANGED <<plugins, engineVars>>

CallAddTensorOrWeights ==
  /\ CanCall
  /\ \E name \in Names, input \in Values(network) :
       LET r == AddTensorOrWeights(cur, name, input)
       IN /\ Becomes(r.cv)
          /\ ret' = [op |-> "AddTensorOrWeights", n |-> ret.n + 1,
                     status |-> r.status, name |-> name, input |-> input]
  /\ UNCHANGED <<plugins, engineVars>>

CallGetTensorOrWeights ==
  /\ CanCall
  /\ \E name \in Names :
       LET r == GetTensorOrWeights(cur, name)
       IN /\ Becomes(cur)
          /\ ret' = [op |-> "GetTensorOrWeights", n |-> ret.n + 1,
                     status |-> r.status, name |-> name, output |-> r.output]
  /\ UNCHANGED <<plugins, engineVars>>

CallConvertNode ==
  /\ CanCall
  /\ \E node_def \in Nodes :
       \E ext \in ExtFor(plugins, node_def) :
         LET r == ConvertNode(cur, plugins, node_def, ext)
         IN /\ Becomes(r.cv)
            /\ ret' = [op |-> "ConvertNode", n |-> ret.n + 1,
                       status |-> r.status, node_def |-> node_def,
                       invoked |-> r.invoked, inputs |-> r.inputs,
                       outputs |-> r.outputs, bound |-> r.bound,
                       failed |-> r.failed, ext |-> ext]
  /\ UNCHANGED <<plugins, engineVars>>

CallAddInputTensor ==
  /\ CanCall
  /\ \E name \in {NameA, NameB}, dims \in InputDims,
        batch_size \in BatchSizes, null_input \in BOOLEAN :
       LET r == AddInputTensor(cur, name, dims, batch_size,
                               [ExtDefault EXCEPT !.null_input = null_input])
       IN /\ Becomes(r.cv)
          /\ ret' = [op |-> "AddInputTensor", n |-> ret.n + 1,
                     status |-> r.status, name |-> name,
                     batch_size |-> batch_size, null_input |-> null_input,
                     created |-> r.created]
  /\ UNCHANGED <<plugins, engineVars>>

CallRenameAndMarkOutputTensors ==
  /\ CanCall
  /\ \E pairs \in OutputLists :
       LET r == RenameAndMarkOutputTensors(cur, pairs)
       IN /\ Becomes(r.cv)
          /\ ret' = [op |-> "RenameAndMarkOutputTensors", n |-> ret.n + 1,
                     status |-> r.status, output_tensors |-> pairs,
                     marked |-> r.marked]
  /\ UNCHANGED <<plugins, engineVars>>

Next ==
  \/ CallMaybeUpdateBatchSize
  \/ CallAddTensorOrWeights
  \/ CallGetTensorOrWeights
  \/ CallConvertNode
  \/ CallAddInputTensor
  \/ CallRenameAndMarkOutputTensors

Spec == Init /\ [][Next]_vars

----------------------------------------------------------------------------
(* ConvertGraphDefToEngine, one loop iteration per step.                   *)

\* A PartialTensorShape: rank -1 is "unknown rank".
Shape(dim_size) == [rank |-> Len(dim_size), dim_size |-> dim_size]
UnknownRankShape == [rank |-> -1, dim_size |-> <<>>]

\* The hard maximum of ValidateInputProperties on the rank of an input.
MaxInputRank == 9

\* tensorflow::Status ValidateInputProperties(const PartialTensorShape& shape,
\*                                            DataType dtype, DataType* trt_dtype)
ValidateInputProperties(shape, dtype) ==
  IF ConvertDType(dtype) # OK THEN ConvertDType(dtype)
  ELSE IF shape.rank < 0 THEN "InvalidArgument"
  ELSE IF shape.rank > MaxInputRank THEN "OutOfRange"
  ELSE IF \E d \in 2..shape.rank : shape.dim_size[d] < 0
       THEN "InvalidArgument"
  ELSE OK

InputPH(slot) == kInputPHName \o slot
OutputPH(slot) == kOutputPHName \o slot

IsInputPlaceholder(node_def) ==
  StartsWith(node_def.name, kInputPHName) /\ node_def.op = "Placeholder"

IsOutputPlaceholder(node_def) ==
  StartsWith(node_def.name, kOutputPHName) /\ node_def.op = "Identity"

\* output_tensors.resize(slot_number + 1) when size() <= slot_number, then
\* output_tensors.at(slot_number) = pair
RECURSIVE Resize(_, _)
Resize(v, n) ==
  IF Len(v) >= n THEN v ELSE Resize(Append(v, Pair(<<>>, <<>>)), n)

\* The deferred pair stored at the end of the list, whatever its slot.
SetSlot_Append(v, slot_number, pair) == Append(v, pair)

SetSlot(v, slot_number, pair) ==
  [Resize(v, slot_number + 1) EXCEPT ![slot_number + 1] = pair]

\* Nodes of the fragments tried.
EngineNodes ==
  {Node(InputPH(<<"0">>), "Placeholder", <<>>, [dtype |-> "DT_FLOAT"]),
   Node(InputPH(<<"1">>), "Placeholder", <<>>, [dtype |-> "DT_FLOAT"]),
   Node(InputPH(<<"x">>), "Placeholder", <<>>, [dtype |-> "DT_FLOAT"]),
   Node(OutputPH(<<"0">>), "Identity", <<NameA>>, NoAttr),
   Node(OutputPH(<<"0">>), "Identity", <<InputPH(<<"0">>)>>, NoAttr),
   Node(OutputPH(<<"1">>), "Identity", <<NameA1>>, NoAttr),
   Node(OutputPH(<<>>), "Identity", <<NameA>>, NoAttr),
   Node(NameA, "Relu", <<InputPH(<<"0">>)>>, NoAttr),
   Node(NameA, "Identity", <<InputPH(<<"0">>)>>, NoAttr),
   Node(NameA, "MyPlugin", <<>>, NoAttr),
   Node(NameA, "Const", <<>>, CHOOSE a \in ConstAttrs : a.dtype = "DT_FLOAT")}

RECURSIVE SeqsUpTo(_, _)
SeqsUpTo(S, n) ==
  IF n = 0 THEN {<<>>}
  ELSE LET shorter == SeqsUpTo(S, n - 1)
       IN shorter \cup {Append(q, x) : q \in shorter, x \in S}

Fragments == SeqsUpTo(EngineNodes, MaxNodes)

\* Lists for input_shapes: two inputs of the same batch size, of different
\* batch sizes, an unknown dimension and an unknown rank, a single input of
\* unknown batch size.
ShapeLists ==
  {<<Shape(<<1, 2>>), Shape(<<1, 2>>)>>,
   <<Shape(<<1, 2>>), Shape(<<0, 2>>)>>,
   <<Shape(<<1, -1>>), UnknownRankShape>>,
   <<Shape(<<-1, 2>>)>>}

InitEngine ==
  /\ batch_size_ = UnknownBatchSize
  /\ trt_tensors_ = <<>>
  /\ network = EmptyNetwork
  /\ plugins = {"MyPlugin"}
  /\ ret = [op |-> "none", n |-> 0, status |-> OK]
  /\ pc = "start"
  /\ gdef \in Fragments
  /\ input_shapes \in ShapeLists
  /\ node_idx = 0
  /\ output_tensors = <<>>
  /\ engine \in {"null", "engine"}
  /\ convert_successfully = (engine = "engine")
  /\ result = OK

\* The caller's engine kept across the call.
ResetEngine_Keep == engine

\* engine->reset() on entry: the caller's engine pointer becomes null.
ResetEngine == "null"

\* The call returns status.
Return(status) == pc' = "done" /\ result' = status

\* engine->reset(), *convert_successfully = false, builder and network
\* creation, Converter converter(...)
EngineStart ==
  /\ pc = "start"
  /\ engine' = ResetEngine
  /\ convert_successfully' = FALSE
  /\ \E network_created \in BOOLEAN :
       IF network_created
       THEN /\ pc' = "loop"
            /\ result' = result
            /\ ret' = [op |-> "createNetwork", n |-> 0, status |-> OK]
       ELSE /\ Return("Internal")
            /\ ret' = [op |-> "createNetwork", n |-> 0, status |-> "Internal"]
  /\ UNCHANGED <<convVars, plugins, gdef, input_shapes, node_idx,
                 output_tensors>>

InLoop == pc = "loop" /\ node_idx < Len(gdef)

\* The loop body for an input placeholder.
ProcessInputPlaceholder ==
  /\ InLoop
  /\ LET node_def == gdef[node_idx + 1]
         slot == safe_strto32(SubSeq(node_def.name, Len(kInputPHName) + 1,
                                     Len(node_def.name)))
         shape == input_shapes[slot.value + 1]
         valid == ValidateInputProperties(shape, node_def.attr["dtype"])
         input_dim == SubSeq(shape.dim_size, 2, shape.rank)
     IN /\ IsInputPlaceholder(node_def)
        /\ node_idx' = node_idx + 1
        /\ IF ~slot.ok
           THEN /\ Return("InvalidArgument")
                /\ ret' = [op |-> "safe_strto32", n |-> node_idx + 1,
                           status |-> "InvalidArgument"]
                /\ UNCHANGED convVars
           ELSE IF slot.value + 1 > Len(input_shapes)
           THEN /\ pc' = "aborted" /\ result' = result
                /\ ret' = [op |-> "input_shapes.at", n |-> node_idx + 1,
                           status |-> Abort]
                /\ UNCHANGED convVars
           ELSE IF valid # OK
           THEN /\ Return(valid)
                /\ ret' = [op |-> "ValidateInputProperties",
                           n |-> node_idx + 1, status |-> valid]
                /\ UNCHANGED convVars
           ELSE \E null_input \in BOOLEAN :
                  LET r == AddInputTensor(
                             cur, node_def.name, input_dim, shape.dim_size[1],
                             [ExtDefault EXCEPT !.null_input = null_input])
                  IN /\ Becomes(r.cv)
                     /\ ret' = [op |-> "AddInputTensor", n |-> node_idx + 1,
                                status |-> r.status, name |-> node_def.name,
                                batch_size |-> shape.dim_size[1],
                                null_input |-> null_input,
                                created |-> r.created]
                     /\ IF r.status # OK THEN Return(r.status)
                        ELSE pc' = pc /\ result' = result
  /\ UNCHANGED <<plugins, gdef, input_shapes, output_tensors, engine,
                 convert_successfully>>

\* The loop body for an output placeholder.
ProcessOutputPlaceholder ==
  /\ InLoop
  /\ LET node_def == gdef[node_idx + 1]
         slot == safe_strto32(SubSeq(node_def.name, Len(kOutputPHName) + 1,
                                     Len(node_def.name)))
     IN /\ ~IsInputPlaceholder(node_def)
        /\ IsOutputPlaceholder(node_def)
        /\ node_idx' = node_idx + 1
        /\ IF ~slot.ok
           THEN /\ Return("InvalidArgument")
                /\ ret' = [op |-> "safe_strto32", n |-> node_idx + 1,
                           status |-> "InvalidArgument"]
                /\ UNCHANGED output_tensors
           ELSE /\ output_tensors' =
                     SetSlot(output_tensors, slot.value,
                             Pair(node_def.input[1], node_def.name))
                /\ ret' = [op |-> "defer", n |-> node_idx + 1, status |-> OK]
                /\ pc' = pc /\ result' = result
  /\ UNCHANGED <<convVars, plugins, gdef, input_shapes, engine,
                 convert_successfully>>

\* The loop body for any other node.
ProcessNode ==
  /\ InLoop
  /\ LET node_def == gdef[node_idx + 1]
     IN /\ ~IsInputPlaceholder(node_def)
        /\ ~IsOutputPlaceholder(node_def)
        /\ node_idx' = node_idx + 1
        /\ \E ext \in ExtFor(plugins, node_def) :
             LET r == ConvertNode(cur, plugins, node_def, ext)
             IN /\ Becomes(r.cv)
                /\ ret' = [op |-> "ConvertNode", n |-> node_idx + 1,
                           status |-> r.status, node_def |-> node_def,
                           invoked |-> r.invoked, inputs |-> r.inputs,
                           outputs |-> r.outputs, bound |-> r.bound,
                           failed |-> r.failed, ext |-> ext]
                /\ IF r.status = Abort THEN pc' = "aborted" /\ result' = result
                   ELSE IF r.status # OK THEN Return(r.status)
                   ELSE pc' = pc /\ result' = result
  /\ UNCHANGED <<plugins, gdef, input_shapes, output_tensors, engine,
                 convert_successfully>>

\* converter.RenameAndMarkOutputTensors(output_tensors) after the loop, then
\* *convert_successfully = true
MarkOutputs ==
  /\ pc = "loop" /\ node_idx = Len(gdef)
  /\ LET r == RenameAndMarkOutputTensors(cur, output_tensors)
     IN /\ Becomes(r.cv)
        /\ ret' = [op |-> "RenameAndMarkOutputTensors", n |-> node_idx,
                   status |-> r.status, output_tensors |-> output_tensors,
                   marked |-> r.marked]
        /\ IF r.status # OK
           THEN Return(r.status) /\ UNCHANGED convert_successfully
           ELSE /\ pc' = "build" /\ result' = result
                /\ convert_successfully' = TRUE
  /\ UNCHANGED <<plugins, gdef, input_shapes, node_idx, output_tensors,
                 engine>>

\* engine->reset(builder->buildCudaEngine(*converter.network()))
BuildEngine ==
  /\ pc = "build"
  /\ \E built \in {"null", "engine"} :
       /\ engine' = built
       /\ Return(IF built = "null" THEN "Internal" ELSE OK)
       /\ ret' = [op |-> "buildCudaEngine", n |-> node_idx,
                  status |-> IF built = "null" THEN "Internal" ELSE OK]
  /\ UNCHANGED <<convVars, plugins, gdef, input_shapes, node_idx,
                 output_tensors, convert_successfully>>

NextEngine ==
  \/ EngineStart
  \/ ProcessInputPlaceholder
  \/ ProcessOutputPlaceholder
  \/ ProcessNode
  \/ MarkOutputs
  \/ BuildEngine

SpecEngine == InitEngine /\ [][NextEngine]_vars

----------------------------------------------------------------------------
(* The node validator and the conversion functions called one by one on    *)
(* given inputs (as their unit tests call them).                           *)

\* The tensors the inputs refer to: dimensions [2,3] and [6].
OpTensors ==
  <<[name |-> Name(NameA), dims |-> <<2, 3>>],
    [name |-> Name(NameB), dims |-> <<6>>]>>

Weights(type, shape, values) ==
  [type |-> type, shape |-> shape, values |-> values]

\* A 3x2 float matrix whose words are all 1.
MatrixWeights == Weights("DT_FLOAT", <<3, 2>>, <<1, 1, 1, 1, 1, 1>>)

\* A permutation, a permutation that moves the batch dimension, a shape
\* that infers the batch dimension, a shape that fixes it, a matrix and
\* weights without elements.
OpWeights ==
  {Weights("DT_INT32", <<3>>, <<0, 2, 1>>),
   Weights("DT_INT32", <<3>>, <<1, 0, 2>>),
   Weights("DT_INT32", <<2>>, <<-1, 6>>),
   Weights("DT_INT32", <<2>>, <<1, 6>>),
   MatrixWeights,
   Weights("DT_FLOAT", <<>>, <<>>)}

OpFirstInputs ==
  {TensorValue(1, 1), TensorValue(1, UnknownBatchSize), TensorValue(2, 1),
   WeightsValue(MatrixWeights)}

OpInputLists ==
  {<<>>, <<TensorValue(1, 1)>>, <<WeightsValue(MatrixWeights)>>,
   <<TensorValue(1, 1), TensorValue(2, 1)>>}
  \cup {<<a, WeightsValue(w)>> : a \in OpFirstInputs, w \in OpWeights}

MatMulAttrs(T, transpose_a, transpose_b) ==
  [T |-> T, transpose_a |-> transpose_a, transpose_b |-> transpose_b]

\* Const nodes with a float value and with four bytes of float content,
\* Transpose, Reshape, MatMul, unary operators and an unregistered one.
OpNodes ==
  {Node(NameA, "Const", <<>>,
        [dtype |-> "DT_FLOAT", value |-> Proto(<<>>, 1, 0, 0)]),
   Node(NameA, "Const", <<>>,
        [dtype |-> "DT_FLOAT", value |-> Proto(<<>>, 0, 0, 4)]),
   Node(NameA, "Transpose", <<>>, NoAttr),
   Node(NameA, "Reshape", <<>>, NoAttr),
   Node(NameA, "MatMul", <<>>, MatMulAttrs("DT_FLOAT", FALSE, FALSE)),
   Node(NameA, "MatMul", <<>>, MatMulAttrs("DT_FLOAT", FALSE, TRUE)),
   Node(NameA, "MatMul", <<>>, MatMulAttrs("DT_FLOAT", TRUE, FALSE)),
   Node(NameA, "MatMul", <<>>, MatMulAttrs("DT_INT32", FALSE, FALSE)),
   Node(NameA, "Neg", <<>>, NoAttr),
   Node(NameA, "Rsqrt", <<>>, NoAttr),
   Node(NameA, "NoOp", <<>>, NoAttr)}

\* What a call through a null pointer can do: not return, or return some
\* status.
UBOutcomes == {Abort, OK, "Internal"}

\* Values an entry of Dims::d that was never written can hold.
Uninit == {0, 7}

ExtOps(null_layer, ub, uninit) ==
  [null_layer |-> null_layer, fresh_name |-> NullName, nb_outputs |-> 1,
   set_attribute_ok |-> TRUE, null_input |-> FALSE, ub |-> ub,
   uninit |-> uninit]

\* The answers that matter to one call of a conversion function.
OpExtFor(node_def, validation_only) ==
  IF validation_only
  THEN {ExtOps(FALSE, ub, 0) :
          ub \in IF node_def.op = "MatMul" THEN UBOutcomes ELSE {Abort}}
  ELSE {ExtOps(null_layer, Abort, uninit) :
          null_layer \in BOOLEAN,
          uninit \in IF node_def.op = "MatMul" THEN Uninit ELSE {0}}

\* Calls made on one validator and one network by the per-call driver.
MaxOpCalls == 1

CanCallOps ==
  pc = "ops" /\ ret.n < MaxOpCalls /\ ret.status # Abort /\ ~ret.null_deref

\* TrtNodeValidator::TrtNodeValidator()
InitOps ==
  /\ batch_size_ = UnknownBatchSize
  /\ trt_tensors_ = <<>>
  /\ network = [EmptyNetwork EXCEPT !.tensors = OpTensors]
  /\ plugins = {}
  /\ ret = [op |-> "TrtNodeValidator", n |-> 0, status |-> OK,
            null_deref |-> FALSE]
  /\ pc = "ops"
  /\ gdef = <<>>
  /\ input_shapes = <<>>
  /\ node_idx = 0
  /\ output_tensors = <<>>
  /\ engine = "null"
  /\ convert_successfully = FALSE
  /\ result = OK

\* validator.ValidateNode(node_def, inputs)
CallValidateNode ==
  /\ CanCallOps
  /\ \E node_def \in OpNodes, inputs \in OpInputLists :
       \E ext \in OpExtFor(node_def, TRUE) :
         LET r == ValidateNode(node_def, inputs, network, ext)
         IN /\ network' = r.net
            /\ ret' = [op |-> "ValidateNode", n |-> ret.n + 1,
                       status |-> r.status, node_def |-> node_def,
                       inputs |-> inputs, invoked |-> r.invoked,
                       outputs |-> r.outputs, null_deref |-> r.null_deref,
                       ext |-> ext]
  /\ UNCHANGED <<batch_size_, trt_tensors_, plugins, engineVars>>

\* op_converter(&params) as ConvertNode makes the call: the function the
\* Converter registers for the operator, with the Converter and an outputs
\* vector, on inputs already resolved.
CallOpConverter ==
  /\ CanCallOps
  /\ \E node_def \in OpNodes, inputs \in OpInputLists :
       /\ node_def.op \in DOMAIN op_registry_
       /\ op_registry_[node_def.op] \in ModelledConverters
       /\ \E ext \in OpExtFor(node_def, FALSE) :
            LET r == CallConverter(op_registry_[node_def.op],
                                   Params(node_def, inputs, FALSE, network,
                                          ext))
            IN /\ network' = r.net
               /\ ret' = [op |-> "op_converter", n |-> ret.n + 1,
                          status |-> r.status, node_def |-> node_def,
                          inputs |-> inputs,
                          invoked |-> op_registry_[node_def.op],
                          outputs |-> r.outputs,
                          null_deref |-> WentThroughNull(r), ext |-> ext]
  /\ UNCHANGED <<batch_size_, trt_tensors_, plugins, engineVars>>

NextOps ==
  \/ CallValidateNode
  \/ CallOpConverter

SpecOps == InitOps /\ [][NextOps]_vars

----------------------------------------------------------------------------
(* ConvertSegmentToGraphDef.  The host graph is a sequence of NodeDefs, a  *)
(* node's id being its position.  The shapes and types written into the   *)
(* connections come from GraphProperties and are left out, and so is the   *)
(* common name scope.                                                      *)

\* tensorflow::Graph::kControlSlot
kControlSlot == -1

\* struct EngineConnection
Connection(outside_id, outside_port, inside_id, inside_node_name, inside_port, is_input_edge, port_number) ==
  [outside_id |-> outside_id, outside_port |-> outside_port,
   inside_id |-> inside_id, inside_node_name |-> inside_node_name,
   inside_port |-> inside_port, is_input_edge |-> is_input_edge,
   port_number |-> port_number]

\* bool EngineConnection::is_control_edge() const
is_control_edge(connection) == connection.port_number = kControlSlot

\* TensorId ParseTensorName(const string& name): "^n" is (n, kControlSlot),
\* "n:i" is (n, i) and "n" is (n, 0).
ParseTensorName(name) ==
  LET last == FindLastOfColon(name)
      index == safe_strto32(SubSeq(name, last + 1, Len(name)))
  IN IF Len(name) > 0 /\ name[1] = "^"
     THEN [first |-> Tail(name), second |-> kControlSlot]
     ELSE IF last > 1 /\ index.ok
     THEN [first |-> SubSeq(name, 1, last - 1), second |-> index.value]
     ELSE [first |-> name, second |-> 0]

\* NodeDefBuilder::Input(src_node, src_index, dt): the input it writes.
BuilderInput(src_node, src_index) ==
  IF src_index > 0 THEN StrCatColon(src_node, src_index) ELSE src_node

\* marker_nodes never remembering a name.
MarkerSeen_Never(marker_nodes, node_name) == FALSE

\* marker_nodes.count(node_name)
MarkerSeen(marker_nodes, node_name) == node_name \in marker_nodes

\* The first loop: one dummy node for each new marker name.
RECURSIVE AddMarkerNodes(_, _, _, _, _)
AddMarkerNodes(graph, connections, i, marker_nodes, segment_def) ==
  IF i > Len(connections)
  THEN [status |-> OK, segment_def |-> segment_def]
  ELSE LET connection == connections[i]
           node_name ==
             (IF connection.is_input_edge THEN kInputPHName
              ELSE kOutputPHName) \o IntToStr(connection.port_number)
           seg_node ==
             IF connection.is_input_edge
             THEN Node(node_name, "Placeholder", <<>>,
                       [dtype |-> "DT_FLOAT"])
             ELSE Node(node_name, "Identity",
                       <<BuilderInput(connection.inside_node_name, 0)>>,
                       <<>>)
       IN IF is_control_edge(connection)
          THEN AddMarkerNodes(graph, connections, i + 1, marker_nodes,
                              segment_def)
          ELSE IF connection.outside_id \notin DOMAIN graph
          THEN [status |-> "NotFound", segment_def |-> segment_def]
          ELSE IF MarkerSeen(marker_nodes, node_name)
          THEN AddMarkerNodes(graph, connections, i + 1, marker_nodes,
                              segment_def)
          ELSE AddMarkerNodes(graph, connections, i + 1,
                              marker_nodes \cup {node_name},
                              Append(segment_def, seg_node))

\* The second loop: the internal nodes copied in the order of the id list.
CopyNodes(graph, subgraph_node_ids, segment_def) ==
  segment_def \o [k \in 1..Len(subgraph_node_ids) |->
                    graph[subgraph_node_ids[k]]]

\* old_to_new_id_map[id] after the copy, 0-based; operator[] yields 0 for
\* an id that was not copied.
OldToNewId(subgraph_node_ids, markers, id) ==
  IF \E k \in 1..Len(subgraph_node_ids) : subgraph_node_ids[k] = id
  THEN markers - 1
       + (CHOOSE k \in 1..Len(subgraph_node_ids) :
            /\ subgraph_node_ids[k] = id
            /\ \A j \in (k + 1)..Len(subgraph_node_ids) :
                 subgraph_node_ids[j] # id)
  ELSE 0

\* The third loop rewriting for output connections too.
RewritesInput_AnyEdge(connection) == ~is_control_edge(connection)

\* The connections whose inside input the third loop rewrites.
RewritesInput(connection) ==
  ~is_control_edge(connection) /\ connection.is_input_edge

\* The third loop: inputs fed from outside now name the placeholders.
RECURSIVE UpdateInputs(_, _, _, _, _)
UpdateInputs(connections, i, subgraph_node_ids, markers, segment_def) ==
  IF i > Len(connections)
  THEN [status |-> OK, segment_def |-> segment_def]
  ELSE LET connection == connections[i]
           snode == OldToNewId(subgraph_node_ids, markers,
                               connection.inside_id) + 1
           placeholder_name ==
             kInputPHName \o IntToStr(connection.port_number)
       IN IF ~RewritesInput(connection)
          THEN UpdateInputs(connections, i + 1, subgraph_node_ids, markers,
                            segment_def)
          ELSE IF connection.inside_port >= Len(segment_def[snode].input)
          THEN [status |-> Abort, segment_def |-> segment_def]
          ELSE UpdateInputs(
                 connections, i + 1, subgraph_node_ids, markers,
                 [segment_def EXCEPT
                    ![snode].input[connection.inside_port + 1] =
                      placeholder_name])

\* The test of the last loop without the exception for placeholders.
IsOutside_NoPlaceholders(first, subgraph_node_names) ==
  first \notin subgraph_node_names

\* !subgraph_node_names.count(input.first) &&
\* !str_util::StartsWith(input.first, kInputPHName)
IsOutside(first, subgraph_node_names) ==
  first \notin subgraph_node_names /\ ~StartsWith(first, kInputPHName)

\* The while loop of the last loop on one node's inputs, indices 0-based,
\* with the RemoveLast calls that follow it.
RECURSIVE RemoveOutsideControlInputs(_, _, _, _)
RemoveOutsideControlInputs(input, subgraph_node_names, input_idx, actual_input_idx) ==
  IF input_idx >= Len(input)
  THEN [status |-> OK, input |-> SubSeq(input, 1, actual_input_idx)]
  ELSE LET parsed == ParseTensorName(input[input_idx + 1])
       IN IF IsOutside(parsed.first, subgraph_node_names)
          THEN IF parsed.second = kControlSlot
               THEN RemoveOutsideControlInputs(input, subgraph_node_names,
                                               input_idx + 1,
                                               actual_input_idx)
               ELSE [status |-> "InvalidArgument", input |-> input]
          ELSE RemoveOutsideControlInputs(
                 [input EXCEPT ![actual_input_idx + 1] =
                                  input[input_idx + 1]],
                 subgraph_node_names, input_idx + 1, actual_input_idx + 1)

\* The last loop, over every node of the fragment.
RECURSIVE RemoveFromNodes(_, _, _)
RemoveFromNodes(segment_def, subgraph_node_names, i) ==
  IF i > Len(segment_def)
  THEN [status |-> OK, segment_def |-> segment_def]
  ELSE LET r == RemoveOutsideControlInputs(segment_def[i].input,
                                           subgraph_node_names, 0, 0)
           updated == [segment_def EXCEPT ![i].input = r.input]
       IN IF r.status # OK
          THEN [status |-> r.status, segment_def |-> updated]
          ELSE RemoveFromNodes(updated, subgraph_node_names, i + 1)

\* tensorflow::Status ConvertSegmentToGraphDef(graph, graph_properties,
\*     subgraph_node_names, subgraph_node_ids, connections, segment_def,
\*     common_scope)
\* rewritten is the fragment between the third loop and the last one.
ConvertSegmentToGraphDef(graph, subgraph_node_names, subgraph_node_ids, connections) ==
  LET marked == AddMarkerNodes(graph, connections, 1, {}, <<>>)
      markers == Len(marked.segment_def)
      copied == CopyNodes(graph, subgraph_node_ids, marked.segment_def)
      updated == UpdateInputs(connections, 1, subgraph_node_ids, markers,
                              copied)
      removed == RemoveFromNodes(updated.segment_def, subgraph_node_names, 1)
  IN IF marked.status # OK
     THEN [status |-> marked.status, segment_def |-> marked.segment_def,
           markers |-> markers, rewritten |-> <<>>]
     ELSE IF updated.status # OK
     THEN [status |-> updated.status, segment_def |-> updated.segment_def,
           markers |-> markers, rewritten |-> <<>>]
     ELSE [status |-> removed.status, segment_def |-> removed.segment_def,
           markers |-> markers, rewritten |-> updated.segment_def]

\* Connections of one segment.
MaxConnections == 3

NameZ == <<"z">>

Control(name) == <<"^">> \o name

\* Input lists of the segment nodes a (id 3) and b (id 4); x (id 1) and
\* y (id 2) are producers outside the segment, z (id 5) is a consumer.
AInputs ==
  {<<NameX, NameY>>, <<NameX, Control(NameY)>>,
   <<Control(NameY), NameX, Control(NameB)>>}

BInputs ==
  {<<NameA, Control(NameA)>>,
   <<Control(NameX), NameA, Control(NameY), Control(NameA)>>,
   <<NameA1, NameX>>}

HostGraph(a_input, b_input) ==
  <<Node(NameX, "Placeholder", <<>>, [dtype |-> "DT_FLOAT"]),
    Node(NameY, "Placeholder", <<>>, [dtype |-> "DT_FLOAT"]),
    Node(NameA, "MyOp", a_input, NoAttr),
    Node(NameB, "Relu", b_input, NoAttr),
    Node(NameZ, "Identity", <<NameA, NameA1, NameB>>, NoAttr)>>

HostGraphs == {HostGraph(a, b) : a \in AInputs, b \in BInputs}

\* x:0 -> a:0 on port 0, y:0 -> a:1 on port 1, x:0 -> b:1 on port 0 again,
\* a control edge y -> a, an input from a node the graph does not have;
\* a:0 -> z:0 on port 0, a:0 -> z:2 on port 0 again, a:1 -> z:1 on port 1,
\* b:0 -> z:2 on port 2.
SegmentConnections ==
  {Connection(1, 0, 3, NameA, 0, TRUE, 0),
   Connection(2, 0, 3, NameA, 1, TRUE, 1),
   Connection(1, 0, 4, NameB, 1, TRUE, 0),
   Connection(2, kControlSlot, 3, NameA, kControlSlot, TRUE, kControlSlot),
   Connection(9, 0, 3, NameA, 0, TRUE, 2),
   Connection(5, 0, 3, NameA, 0, FALSE, 0),
   Connection(5, 2, 3, NameA, 0, FALSE, 0),
   Connection(5, 1, 3, NameA, 1, FALSE, 1),
   Connection(5, 2, 4, NameB, 0, FALSE, 2)}

ConnectionLists == SeqsUpTo(SegmentConnections, MaxConnections)

InitSegment ==
  /\ batch_size_ = UnknownBatchSize
  /\ trt_tensors_ = <<>>
  /\ network = EmptyNetwork
  /\ plugins = {}
  /\ ret = [op |-> "none", n |-> 0, status |-> OK]
  /\ pc = "segment"
  /\ gdef = <<>>
  /\ input_shapes = <<>>
  /\ node_idx = 0
  /\ output_tensors = <<>>
  /\ engine = "null"
  /\ convert_successfully = FALSE
  /\ result = OK

\* ConvertSegmentToGraphDef(graph, graph_properties, {a, b}, {3, 4},
\*                          &connections, &segment_def, &common_scope)
CallConvertSegmentToGraphDef ==
  /\ pc = "segment"
  /\ \E graph \in HostGraphs, connections \in ConnectionLists :
       LET r == ConvertSegmentToGraphDef(graph, {NameA, NameB}, <<3, 4>>,
                                         connections)
       IN /\ gdef' = r.segment_def
          /\ ret' = [op |-> "ConvertSegmentToGraphDef", n |-> ret.n + 1,
                     status |-> r.status, graph |-> graph,
                     subgraph_node_names |-> {NameA, NameB},
                     subgraph_node_ids |-> <<3, 4>>,
                     connections |-> connections, markers |-> r.markers,
                     rewritten |-> r.rewritten]
          /\ pc' = "converted"
          /\ result' = r.status
  /\ UNCHANGED <<convVars, plugins, input_shapes, node_idx, output_tensors,
                 engine, convert_successfully>>

NextSegment == CallConvertSegmentToGraphDef

SpecSegment == InitSegment /\ [][NextSegment]_vars

----------------------------------------------------------------------------
(* The shape helpers TensorRTGetBroadcastShape and CreateSamePadding       *)
(* called on given arguments.                                              *)

\* The split that gives the odd unit to the left.
PadLeft_RoundUp(p) == (p + 1) \div 2

\* int left = p / 2
PadLeft(p) == p \div 2

\* One entry of the padding: the body of the loop for axis i.
SamePaddingOf(input_dim, stride_d, kernel_d) ==
  LET raw == ((input_dim - 1) \div stride_d) * stride_d + kernel_d
             - input_dim
      p == IF raw > 0 THEN raw ELSE 0
      left == PadLeft(p)
      right == p - left
  IN <<left, right>>

\* static std::vector<std::pair<int, int>> CreateSamePadding(
\*     const DimsHW& stride, const DimsHW& kernel,
\*     const std::vector<int64_t>& input_dims)
\* CHECK_EQ(stride.nbDims, input_dims.size()) ends the process.
CreateSamePadding(stride, kernel, input_dims) ==
  IF Len(stride) # Len(input_dims)
  THEN [status |-> Abort, padding |-> <<>>]
  ELSE [status |-> OK,
        padding |-> [i \in 1..Len(input_dims) |->
                       SamePaddingOf(input_dims[i], stride[i], kernel[i])]]

\* Arguments of the shape helpers.
MaxRank == 4         \* largest rank of an operand, batch axis counted
MaxInputDim == 7     \* largest spatial input size
MaxStride == 2       \* largest stride
MaxKernel == 3       \* largest kernel size

\* Axis sizes of the operands.
AxisSizes == {1, 2, 3}

\* Dims of a network tensor: the batch axis is not part of them.
TensorDims == SeqsUpTo(AxisSizes, MaxRank - 1)

\* Dims of weights: every axis is explicit.
WeightDims == SeqsUpTo(AxisSizes, MaxRank)

\* The operand pairs BinaryTensorOpTensor is reached with: ConvertBinary
\* turns down two weights before.
BroadcastArgs ==
  {[fn |-> "TensorRTGetBroadcastShape",
    operand_l |-> a[1], operand_l_is_tensor |-> a[2],
    operand_r |-> a[3], operand_r_is_tensor |-> a[4]] :
     a \in (TensorDims \X {TRUE} \X TensorDims \X {TRUE})
           \cup (TensorDims \X {TRUE} \X WeightDims \X {FALSE})
           \cup (WeightDims \X {FALSE} \X TensorDims \X {TRUE})}

\* DimsHW stride and kernel with the two spatial sizes of the input.
PaddingArgs ==
  {[fn |-> "CreateSamePadding", stride |-> <<a[1], a[2]>>,
    kernel |-> <<a[3], a[4]>>, input_dims |-> <<a[5], a[6]>>] :
     a \in (1..MaxStride) \X (1..MaxStride) \X (1..MaxKernel)
           \X (1..MaxKernel) \X (1..MaxInputDim) \X (1..MaxInputDim)}

\* The arguments of one call are in ret.args until the call is made.
InitShapes ==
  /\ batch_size_ = UnknownBatchSize
  /\ trt_tensors_ = <<>>
  /\ network = EmptyNetwork
  /\ plugins = {}
  /\ \E args \in BroadcastArgs \cup PaddingArgs :
       ret = [op |-> "args", n |-> 0, status |-> OK, args |-> args]
  /\ pc = "shapes"
  /\ gdef = <<>>
  /\ input_shapes = <<>>
  /\ node_idx = 0
  /\ output_tensors = <<>>
  /\ engine = "null"
  /\ convert_successfully = FALSE
  /\ result = OK

\* TensorRTGetBroadcastShape(operand_l.GetTrtDims(), operand_l.is_tensor(),
\*     operand_r.GetTrtDims(), operand_r.is_tensor(), &dim_l, &dim_r)
CallTensorRTGetBroadcastShape ==
  /\ pc = "shapes"
  /\ ret.op = "args"
  /\ ret.args.fn = "TensorRTGetBroadcastShape"
  /\ ret' = [op |-> "TensorRTGetBroadcastShape", n |-> ret.n + 1,
             status |-> OK, args |-> ret.args,
             out |-> TensorRTGetBroadcastShape(
                       ret.args.operand_l, ret.args.operand_l_is_tensor,
                       ret.args.operand_r, ret.args.operand_r_is_tensor)]
  /\ pc' = "returned"
  /\ UNCHANGED <<convVars, plugins, gdef, input_shapes, node_idx,
                 output_tensors, engine, convert_successfully, result>>

\* padding = CreateSamePadding(stride, kernel, {h, w})
CallCreateSamePadding ==
  /\ pc = "shapes"
  /\ ret.op = "args"
  /\ ret.args.fn = "CreateSamePadding"
  /\ LET r == CreateSamePadding(ret.args.stride, ret.args.kernel,
                                ret.args.input_dims)
     IN ret' = [op |-> "CreateSamePadding", n |-> ret.n + 1,
                status |-> r.status, args |-> ret.args,
                padding |-> r.padding]
  /\ pc' = "returned"
  /\ UNCHANGED <<convVars, plugins, gdef, input_shapes, node_idx,
                 output_tensors, engine, convert_successfully, result>>

NextShapes ==
  \/ CallTensorRTGetBroadcastShape
  \/ CallCreateSamePadding

SpecShapes == InitShapes /\ [][NextShapes]_vars

----------------------------------------------------------------------------
(* The conversion functions with shape rules, each called once on given    *)
(* arguments against a Converter that holds five tensors and three         *)
(* weights (as their unit tests call them).                                *)

\* The tensors of the network: dimensions [3,4,4], [2,3], [1], [-1,3] and
\* [3,4,2], the first one a network input.
ConvTensors ==
  <<[name |-> Name(NameX), dims |-> <<3, 4, 4>>],
    [name |-> NullName, dims |-> <<2, 3>>],
    [name |-> NullName, dims |-> <<1>>],
    [name |-> NullName, dims |-> <<-1, 3>>],
    [name |-> NullName, dims |-> <<3, 4, 2>>]>>

\* Float weights of a shape, every word 1.
Ones(shape) ==
  Weights("DT_FLOAT", shape, [i \in 1..Product(shape) |-> 1])

\* 32-bit integer weights of rank 1.
Ints(values) == Weights("DT_INT32", <<Len(values)>>, values)

\* The symbol table: x is the input tensor, y, z and b are constants of
\* shapes [1], [4] and [3,1,1].
ConvBound ==
  LET cv0 == Conv(2, <<>>, [EmptyNetwork EXCEPT !.tensors = ConvTensors])
      cv1 == AddTensorOrWeights(cv0, NameX,
                                TensorValue(1, UnknownBatchSize)).cv
      cv2 == AddTensorOrWeights(cv1, NameY, WeightsValue(Ones(<<1>>))).cv
      cv3 == AddTensorOrWeights(cv2, NameZ, WeightsValue(Ones(<<4>>))).cv
  IN AddTensorOrWeights(cv3, NameB, WeightsValue(Ones(<<3, 1, 1>>))).cv

\* The answers of the accelerator API: the constructors of the layers of
\* the kinds in null_kinds return nullptr.
ConvExt(null_kinds) ==
  [null_layer |-> null_kinds # {}, fresh_name |-> NullName,
   nb_outputs |-> 1, set_attribute_ok |-> TRUE, null_input |-> FALSE,
   ub |-> Abort, uninit |-> 0, null_kinds |-> null_kinds]

ConvNodeName == <<"n">>

\* Orders with the batch dimension: of rank 3 and 4, of a wrong length, and
\* moving the batch dimension.
Orders ==
  {<<0, 1, 2>>, <<0, 2, 1>>, <<1, 0, 2>>, <<0, 1>>, <<1, 0>>,
   <<0, 1, 2, 3>>, <<0, 3, 2, 1>>, <<0, 2, 3, 1>>, <<0, 3, 1, 2>>,
   <<1, 0, 2, 3>>, <<3, 1, 2, 0>>}

TransposeArgs ==
  {[fn |-> "TransposeTensor", input_tensor |-> t,
    order_with_batch_dim |-> o, ext |-> ConvExt(k)] :
     t \in {1, 2, 5}, o \in Orders, k \in {{}, {"Shuffle"}}}

TransposeNodeArgs ==
  {[fn |-> "op_converter",
    node_def |-> Node(ConvNodeName, "Transpose", <<>>, NoAttr),
    inputs |-> <<TensorValue(t, 2), WeightsValue(Ints(o))>>,
    ext |-> ConvExt(k)] :
     t \in {1, 2, 5}, o \in Orders, k \in {{}, {"Shuffle", "Constant"}}}

\* Target shapes without the batch dimension.
TargetDims ==
  {<<2, 3>>, <<3, 2>>, <<6>>, <<1, 6>>, <<-1, 3>>, <<-1, 6>>, <<5>>,
   <<1, 5>>, <<1>>, <<4, 12>>, <<3, 4, 4>>, <<3, 4, 2>>, <<48>>, <<-1>>}

PrepareArgs ==
  {[fn |-> "PrepareTensorForShape", input |-> v, dims |-> d,
    ext |-> ConvExt(k)] :
     v \in {TensorValue(t, 2) : t \in 1..Len(ConvTensors)}
           \cup {WeightsValue(Ones(shape)) :
                   shape \in {<<6>>, <<2, 3>>, <<1>>, <<3, 4, 4>>}},
     d \in TargetDims, k \in {{}, {"Shuffle", "Constant"}}}

\* Batch sizes of a tensor value: unknown, 1 and 4.
ReshapeBatches == {UnknownBatchSize, 1, 4}

\* The shape constant of a Reshape: the batch entry, then the others.
ReshapeShapes ==
  {Ints(<<r>> \o d) :
     r \in {-1, 1, 4},
     d \in {<<6>>, <<2, 3>>, <<3, 2>>, <<5>>, <<1, 5>>, <<-1, 3>>, <<-1, 2>>,
            <<1>>, <<3>>, <<>>}}

ReshapeNodeArgs ==
  {[fn |-> "op_converter",
    node_def |-> Node(ConvNodeName, "Reshape", <<>>, NoAttr),
    inputs |-> <<TensorValue(t, b), WeightsValue(w)>>,
    ext |-> ConvExt(k)] :
     t \in {2, 3, 4}, b \in ReshapeBatches, w \in ReshapeShapes,
     k \in {{}, {"Shuffle", "Constant"}}}

\* The amounts of a paddings constant for a rank-4 input: axis i of the
\* set low gets 2i+1 before, axis i of the set high gets 2i+2 after.
PadData(low, high) ==
  [j \in 1..8 |->
     IF j % 2 = 1 THEN IF (j - 1) \div 2 \in low THEN j ELSE 0
     ELSE IF (j - 2) \div 2 \in high THEN j ELSE 0]

Paddings ==
  {Weights("DT_INT32", <<4, 2>>, PadData(S, S)) : S \in SUBSET (0..3)}
  \cup {Weights("DT_INT32", <<4, 2>>, PadData({2}, {})),
        Weights("DT_INT32", <<4, 2>>, PadData({}, {3})),
        Weights("DT_INT32", <<4, 2>>, PadData({1}, {3})),
        Weights("DT_INT32", <<3, 2>>, <<0, 0, 1, 1, 0, 0>>)}

PadNodeArgs ==
  {[fn |-> "op_converter",
    node_def |-> Node(ConvNodeName, "Pad", <<>>, [Tpaddings |-> T]),
    inputs |-> <<TensorValue(1, 2), WeightsValue(w)>>,
    ext |-> ConvExt(k)] :
     T \in {"DT_INT32", "DT_INT64"}, w \in Paddings,
     k \in {{}, {"Padding"}, {"Shuffle"}}}

\* Values of the axis constant of a ConcatV2 whose inputs have rank 4 with
\* the batch dimension.
ConcatAxes == (-5)..5

ConcatNodeArgs ==
  {[fn |-> "op_converter",
    node_def |-> Node(ConvNodeName, "ConcatV2", <<>>, [Tidx |-> T]),
    inputs |-> <<TensorValue(1, 2), TensorValue(t, 2),
                 WeightsValue(Ints(<<axis>>))>>,
    ext |-> ConvExt(k)] :
     T \in {"DT_INT32", "DT_INT64"}, t \in {1, 2, 5}, axis \in ConcatAxes,
     k \in {{}, {"Concatenation"}}}

BinaryOps == {"Add", "Sub", "Mul", "Div", "Maximum"}

\* Shapes of the constant operand of a binary operator.
BinaryWeightShapes ==
  {<<1>>, <<1, 1, 1>>, <<3, 4, 4>>, <<1, 3, 4, 4>>, <<3, 1, 1>>,
   <<1, 3, 1, 1>>, <<2, 3, 1, 1>>, <<3, 4, 1>>, <<4>>, <<3>>, <<4, 4>>,
   <<2, 3>>}

BinaryInputs ==
  {<<TensorValue(t, 2), WeightsValue(Ones(shape))>> :
     t \in {1, 2}, shape \in BinaryWeightShapes}
  \cup {<<WeightsValue(Ones(shape)), TensorValue(t, 2)>> :
          t \in {1, 2}, shape \in BinaryWeightShapes}
  \cup {<<TensorValue(1, 2), TensorValue(1, 2)>>,
        <<TensorValue(1, 2), TensorValue(5, 2)>>,
        <<TensorValue(2, 2), TensorValue(2, 2)>>,
        <<TensorValue(1, 2), TensorValue(2, 2)>>,
        <<WeightsValue(Ones(<<1>>)), WeightsValue(Ones(<<1>>))>>,
        <<TensorValue(1, 2)>>}

\* Sets of constructors that fail during the conversion of a binary
\* operator.
BinaryNullKinds ==
  {{}, {"Scale"}, {"Unary"}, {"Shuffle"}, {"Constant"}, {"ElementWise"},
   {"Scale", "ElementWise"}}

BinaryNodeArgs ==
  {[fn |-> "op_converter",
    node_def |-> Node(ConvNodeName, op, <<>>, [T |-> "DT_FLOAT"]),
    inputs |-> in, ext |-> ConvExt(k)] :
     op \in BinaryOps, in \in BinaryInputs, k \in BinaryNullKinds}

\* Binary nodes whose inputs are looked up in the symbol table.
ConvertNodeArgs ==
  {[fn |-> "ConvertNode",
    node_def |-> Node(ConvNodeName, op, <<l, r>>, [T |-> "DT_FLOAT"]),
    ext |-> ConvExt(k)] :
     op \in BinaryOps, l \in {NameX, NameY, NameZ, NameB},
     r \in {NameX, NameY, NameZ, NameB}, k \in BinaryNullKinds}

ConvArgs ==
  TransposeArgs \cup TransposeNodeArgs \cup PrepareArgs
  \cup ReshapeNodeArgs \cup PadNodeArgs \cup ConcatNodeArgs
  \cup BinaryNodeArgs \cup ConvertNodeArgs

\* The arguments of one call are in ret.args until the call is made.
InitConvert ==
  /\ batch_size_ = ConvBound.batch_size_
  /\ trt_tensors_ = ConvBound.trt_tensors_
  /\ network = ConvBound.network
  /\ plugins = {}
  /\ \E args \in ConvArgs :
       ret = [op |-> "args", n |-> 0, status |-> OK, args |-> args]
  /\ pc = "convert"
  /\ gdef = <<>>
  /\ input_shapes = <<>>
  /\ node_idx = 0
  /\ output_tensors = <<>>
  /\ engine = "null"
  /\ convert_successfully = FALSE
  /\ result = OK

\* validator.ValidateNode(node_def, inputs) before the conversion
ValidateBeforeConversion ==
  /\ pc = "convert"
  /\ ret.op = "args"
  /\ ret.args.fn = "op_converter"
  /\ LET r == ValidateNode(ret.args.node_def, ret.args.inputs, network,
                           ret.args.ext)
     IN /\ network' = r.net
        /\ ret' = [op |-> "ValidateNode", n |-> ret.n + 1,
                   status |-> r.status, args |-> ret.args]
  /\ pc' = "validated"
  /\ UNCHANGED <<batch_size_, trt_tensors_, plugins, gdef, input_shapes,
                 node_idx, output_tensors, engine, convert_successfully,
                 result>>

\* op_converter(&params) as ConvertNode makes the call, on inputs already
\* resolved; validated is the verdict of the validator if it was asked.
ApplyOpConverter ==
  /\ pc \in {"convert", "validated"}
  /\ ret.op \in {"args", "ValidateNode"}
  /\ ret.args.fn = "op_converter"
  /\ LET fn == op_registry_[ret.args.node_def.op]
         r == CallConverter(fn, Params(ret.args.node_def, ret.args.inputs,
                                       FALSE, network, ret.args.ext))
     IN /\ network' = r.net
        /\ ret' = [op |-> "op_converter", n |-> ret.n + 1,
                   status |-> r.status, args |-> ret.args,
                   validated |-> IF ret.op = "ValidateNode" THEN ret.status
                                 ELSE "none",
                   invoked |-> fn, before |-> network, out |-> r]
  /\ pc' = "returned"
  /\ UNCHANGED <<batch_size_, trt_tensors_, plugins, gdef, input_shapes,
                 node_idx, output_tensors, engine, convert_successfully,
                 result>>

\* converter.TransposeTensor(input_tensor, order_with_batch_dim, &output)
ApplyTransposeTensor ==
  /\ pc = "convert"
  /\ ret.op = "args"
  /\ ret.args.fn = "TransposeTensor"
  /\ LET r == TransposeTensor(network, ret.args.input_tensor,
                              ret.args.order_with_batch_dim, ret.args.ext)
     IN /\ network' = r.net
        /\ ret' = [op |-> "TransposeTensor", n |-> ret.n + 1,
                   status |-> r.status, args |-> ret.args,
                   before |-> network, out |-> r]
  /\ pc' = "returned"
  /\ UNCHANGED <<batch_size_, trt_tensors_, plugins, gdef, input_shapes,
                 node_idx, output_tensors, engine, convert_successfully,
                 result>>

\* converter.PrepareTensorForShape(input, dims, &tensor)
ApplyPrepareTensorForShape ==
  /\ pc = "convert"
  /\ ret.op = "args"
  /\ ret.args.fn = "PrepareTensorForShape"
  /\ LET r == PrepareTensorForShape(network, ret.args.input, ret.args.dims,
                                    ret.args.ext)
     IN /\ network' = r.net
        /\ ret' = [op |-> "PrepareTensorForShape", n |-> ret.n + 1,
                   status |-> r.status, args |-> ret.args,
                   before |-> network, out |-> r]
  /\ pc' = "returned"
  /\ UNCHANGED <<batch_size_, trt_tensors_, plugins, gdef, input_shapes,
                 node_idx, output_tensors, engine, convert_successfully,
                 result>>

\* converter.ConvertNode(node_def)
ApplyConvertNode ==
  /\ pc = "convert"
  /\ ret.op = "args"
  /\ ret.args.fn = "ConvertNode"
  /\ LET r == ConvertNode(Conv(batch_size_, trt_tensors_, network), plugins,
                          ret.args.node_def, ret.args.ext)
     IN /\ batch_size_' = r.cv.batch_size_
        /\ trt_tensors_' = r.cv.trt_tensors_
        /\ network' = r.cv.network
        /\ ret' = [op |-> "ConvertNode", n |-> ret.n + 1,
                   status |-> r.status, args |-> ret.args,
                   before |-> network, out |-> r]
  /\ pc' = "returned"
  /\ UNCHANGED <<plugins, gdef, input_shapes, node_idx, output_tensors,
                 engine, convert_successfully, result>>

NextConvert ==
  \/ ValidateBeforeConversion
  \/ ApplyOpConverter
  \/ ApplyTransposeTensor
  \/ ApplyPrepareTensorForShape
  \/ ApplyConvertNode

SpecConvert == InitConvert /\ [][NextConvert]_vars

----------------------------------------------------------------------------
(* Properties.                                                             *)

\* A step that is a call of the operation op on the Converter.
IsCall(op) == ret'.op = op /\ ret'.n = ret.n + 1

\* C1: MaybeUpdateBatchSize(c) returns OK iff the stored batch size is
\* unknown, or c is unknown, or both are equal, and InvalidArgument
\* otherwise; the stored value becomes c when it was unknown and c is known
\* and is unchanged in every other case; and no operation of the Converter
\* ever changes a known batch size.
C1_BatchSizeLatch ==
  [][/\ IsCall("MaybeUpdateBatchSize") =>
          LET c == ret'.batch_size
          IN /\ ret'.status = OK
                  <=> (batch_size_ < 0 \/ c < 0 \/ batch_size_ = c)
             /\ ret'.status \in {OK, "InvalidArgument"}
             /\ batch_size_' = IF batch_size_ < 0 /\ c >= 0 THEN c
                               ELSE batch_size_
     /\ batch_size_ >= 0 => batch_size_' = batch_size_]_vars

\* A mismatching candidate was refused and the known batch size kept.
C1_Witness ==
  /\ ret.op = "MaybeUpdateBatchSize"
  /\ ret.status = "InvalidArgument"
  /\ batch_size_ >= 0 /\ ret.batch_size >= 0 /\ ret.batch_size # batch_size_

\* C2: AddTensorOrWeights(name, v) fails with AlreadyExists iff name is
\* bound, and then changes nothing; GetTensorOrWeights(name) fails with
\* NotFound iff name is not bound and otherwise yields the binding; no
\* operation of the Converter removes or replaces a binding.
C2_InsertOnce ==
  [][/\ IsCall("AddTensorOrWeights") =>
          /\ ret'.status = "AlreadyExists"
               <=> ret'.name \in DOMAIN trt_tensors_
          /\ ret'.status \in {OK, "AlreadyExists"}
          /\ ret'.status = "AlreadyExists" => trt_tensors_' = trt_tensors_
          /\ ret'.status = OK =>
               /\ DOMAIN trt_tensors_' = DOMAIN trt_tensors_ \cup {ret'.name}
               /\ trt_tensors_'[ret'.name].is_tensor = ret'.input.is_tensor
               /\ trt_tensors_'[ret'.name].tensor = ret'.input.tensor
               /\ trt_tensors_'[ret'.name].weights = ret'.input.weights
     /\ IsCall("GetTensorOrWeights") =>
          /\ ret'.status = "NotFound"
               <=> ret'.name \notin DOMAIN trt_tensors_
          /\ ret'.status \in {OK, "NotFound"}
          /\ ret'.status = OK => ret'.output = trt_tensors_[ret'.name]
     /\ \A name \in DOMAIN trt_tensors_ :
          /\ name \in DOMAIN trt_tensors_'
          /\ trt_tensors_'[name] = trt_tensors_[name]]_vars

\* An insertion under a bound name was refused.
C2_Witness ==
  /\ ret.op = "AddTensorOrWeights"
  /\ ret.status = "AlreadyExists"
  /\ ret.name \in DOMAIN trt_tensors_
  /\ trt_tensors_[ret.name].is_tensor # ret.input.is_tensor

\* The data inputs of a node, in order: the entries that do not start
\* with '^'.
C3_IsData(input_name) == input_name = <<>> \/ input_name[1] # "^"

\* An input name without a trailing ":0".
C3_Stripped(input_name) ==
  IF Len(input_name) >= 2 /\ input_name[Len(input_name) - 1] = ":"
     /\ input_name[Len(input_name)] = "0"
  THEN SubSeq(input_name, 1, Len(input_name) - 2)
  ELSE input_name

\* C3: ConvertNode skips the control inputs, strips a trailing ":0" from
\* the others and looks them up in order; if one of them is unbound it
\* returns InvalidArgument, calls no conversion function and changes
\* nothing; otherwise the function receives the bound values in the
\* positional order of the inputs.
C3_InputResolution ==
  [][IsCall("ConvertNode") =>
       LET data == SelectSeq(ret'.node_def.input, C3_IsData)
           names == [i \in 1..Len(data) |-> C3_Stripped(data[i])]
       IN IF \E i \in 1..Len(names) : names[i] \notin DOMAIN trt_tensors_
          THEN /\ ret'.status = "InvalidArgument"
               /\ ret'.invoked = "none"
               /\ UNCHANGED convVars
          ELSE /\ ret'.failed # "GetInputs"
               /\ ret'.inputs = [i \in 1..Len(names) |->
                                   trt_tensors_[names[i]]]]_vars

\* A node was refused for an unbound input although it has a control input
\* and a ":0" or ":1" reference.
C3_Witness ==
  /\ ret.op = "ConvertNode"
  /\ ret.status = "InvalidArgument"
  /\ ret.invoked = "none"
  /\ ret.node_def.input # <<>>

\* The binding name of output i (0-based) of a node named n: n for
\* i = 0 and n:i for i > 0.
BindingName(n, i) == IF i = 0 THEN n ELSE n \o <<":", DigitChars[i + 1]>>

\* The name tensor t had when the conversion function returned it: its name
\* in the network, or the name a new tensor reports.
NameBefore(t) ==
  IF t <= Len(network.tensors) THEN network.tensors[t].name
  ELSE ret'.ext.fresh_name

\* C4: ConvertNode binds output i of a node named n under n when i = 0 and
\* under n:i when i > 0; a tensor output gets that name as its name in the
\* network only if it had none, a tensor that already carries a name keeps
\* it, and no other tensor is renamed.
C4_OutputNaming ==
  [][IsCall("ConvertNode") =>
       /\ \A i \in 0..(ret'.bound - 1) :
            LET name == BindingName(ret'.node_def.name, i)
                out == ret'.outputs[i + 1]
            IN /\ name \notin DOMAIN trt_tensors_
               /\ name \in DOMAIN trt_tensors_'
               /\ trt_tensors_'[name].is_tensor = out.is_tensor
               /\ trt_tensors_'[name].tensor = out.tensor
               /\ trt_tensors_'[name].weights = out.weights
               /\ out.is_tensor =>
                    network'.tensors[out.tensor].name =
                      IF IsUnnamed(NameBefore(out.tensor)) THEN Name(name)
                      ELSE NameBefore(out.tensor)
       /\ \A t \in 1..Len(network.tensors) :
            (\A i \in 1..Len(ret'.outputs) : ret'.outputs[i].tensor # t)
              => network'.tensors[t].name = network.tensors[t].name]_vars

\* An Identity node returned an engine input: the tensor is bound under the
\* node's name and still carries the input's name.
C4_Witness ==
  /\ ret.op = "ConvertNode" /\ ret.status = OK
  /\ ret.invoked = "ConvertIdentity"
  /\ ret.outputs[1].is_tensor
  /\ ret.node_def.name \in DOMAIN trt_tensors_
  /\ trt_tensors_[ret.node_def.name].tensor = ret.outputs[1].tensor
  /\ ~IsUnnamed(network.tensors[ret.outputs[1].tensor].name)
  /\ network.tensors[ret.outputs[1].tensor].name # Name(ret.node_def.name)

\* C5: a ConvertNode that fails in input resolution, operator lookup or the
\* conversion function returns the error and leaves the symbol table and
\* the batch size as they were; one that returns OK has bound every output
\* the function produced; one that fails binding output i returns
\* AlreadyExists and keeps the bindings of outputs 0..i-1.
C5_FailureAtomicity ==
  [][IsCall("ConvertNode") =>
       LET n == ret'.node_def.name
           names(k) == {BindingName(n, i) : i \in 0..(k - 1)}
       IN /\ batch_size_' = batch_size_
          /\ ret'.status # OK <=> ret'.failed # "none"
          /\ ret'.failed = "GetInputs" => ret'.status = "InvalidArgument"
          /\ ret'.failed = "registry" => ret'.status = "Unimplemented"
          /\ ret'.failed \in {"GetInputs", "registry", "converter"} =>
               trt_tensors_' = trt_tensors_
          /\ ret'.status = OK =>
               /\ ret'.bound = Len(ret'.outputs)
               /\ DOMAIN trt_tensors_' =
                    DOMAIN trt_tensors_ \cup names(Len(ret'.outputs))
          /\ ret'.failed = "AddTensorOrWeights" =>
               /\ ret'.status = "AlreadyExists"
               /\ ret'.bound < Len(ret'.outputs)
               /\ BindingName(n, ret'.bound) \in DOMAIN trt_tensors_
               /\ DOMAIN trt_tensors_' =
                    DOMAIN trt_tensors_ \cup names(ret'.bound)]_vars

\* Binding the second output collided and the first output stayed bound.
C5_Witness ==
  /\ ret.op = "ConvertNode"
  /\ ret.status = "AlreadyExists"
  /\ ret.bound >= 1
  /\ ret.node_def.name \in DOMAIN trt_tensors_
  /\ trt_tensors_[ret.node_def.name].tensor = ret.outputs[1].tensor

\* C6: once the inputs are resolved, ConvertNode calls the plugin converter
\* if the operator is registered with the plugin factory, also when the
\* built-in registry has an entry for it; otherwise the built-in registry's
\* entry; with neither it returns Unimplemented and calls nothing.
C6_DispatchPrecedence ==
  [][IsCall("ConvertNode") /\ ret'.failed # "GetInputs" =>
       LET op == ret'.node_def.op
       IN IF op \in plugins THEN ret'.invoked = "ConvertPlugin"
          ELSE IF op \in DOMAIN op_registry_
          THEN ret'.invoked = op_registry_[op]
          ELSE /\ ret'.invoked = "none"
               /\ ret'.status = "Unimplemented"
               /\ UNCHANGED convVars]_vars

\* An operator known to both registries went to the plugin converter.
C6_Witness ==
  /\ ret.op = "ConvertNode"
  /\ ret.node_def.op \in plugins
  /\ ret.node_def.op \in DOMAIN op_registry_
  /\ ret.invoked = "ConvertPlugin"

\* C7: AddInputTensor reconciles the batch size, then creates the input,
\* then binds the name: on a batch size conflict it returns InvalidArgument
\* with no input created and nothing bound; when input creation returns
\* null it returns InvalidArgument with nothing bound; on success the name
\* is bound to the new input, stamped with the converter's batch size.
C7_AddInputOrder ==
  [][IsCall("AddInputTensor") =>
       LET b == ret'.batch_size
           conflict == batch_size_ >= 0 /\ b >= 0 /\ b # batch_size_
           new == Len(network.tensors) + 1
       IN /\ conflict =>
               /\ ret'.status = "InvalidArgument"
               /\ UNCHANGED convVars
          /\ ~conflict =>
               batch_size_' = IF batch_size_ < 0 /\ b >= 0 THEN b
                              ELSE batch_size_
          /\ ~conflict /\ ret'.null_input =>
               /\ ret'.status = "InvalidArgument"
               /\ UNCHANGED <<trt_tensors_, network>>
          /\ ~conflict /\ ~ret'.null_input =>
               /\ Len(network'.tensors) = new
               /\ network'.tensors[new].name = Name(ret'.name)
               /\ ret'.status = IF ret'.name \in DOMAIN trt_tensors_
                                THEN "AlreadyExists" ELSE OK
          /\ ret'.status # OK => trt_tensors_' = trt_tensors_
          /\ ret'.status = OK =>
               /\ ret'.name \in DOMAIN trt_tensors_'
               /\ trt_tensors_'[ret'.name] = TensorValue(new, batch_size_')]_vars

\* An input of a conflicting batch size was refused.
C7_Witness ==
  /\ ret.op = "AddInputTensor"
  /\ ret.status = "InvalidArgument"
  /\ ~ret.null_input
  /\ batch_size_ >= 0 /\ ret.batch_size >= 0 /\ ret.batch_size # batch_size_
  /\ ret.name \notin DOMAIN trt_tensors_

\* C8: RenameAndMarkOutputTensors takes the pairs in order: at the first
\* pair whose internal name is unbound it returns NotFound, at the first
\* bound to weights InvalidArgument; every pair before it has its tensor
\* renamed to the external name and marked, so the marked outputs are the
\* tensors of the pairs in list order.
C8_MarkInOrder ==
  [][IsCall("RenameAndMarkOutputTensors") =>
       LET pairs == ret'.output_tensors
           Unbound(k) == pairs[k].first \notin DOMAIN trt_tensors_
           Bad(k) == Unbound(k) \/ ~trt_tensors_[pairs[k].first].is_tensor
           fails == {k \in 1..Len(pairs) : Bad(k)}
           first == CHOOSE k \in fails : \A j \in fails : k <= j
           m == IF fails = {} THEN Len(pairs) ELSE first - 1
           T(k) == trt_tensors_[pairs[k].first].tensor
           last(t) == CHOOSE k \in 1..m :
                        T(k) = t /\ \A j \in (k + 1)..m : T(j) # t
       IN /\ ret'.marked = m
          /\ ret'.status = IF fails = {} THEN OK
                           ELSE IF Unbound(first) THEN "NotFound"
                           ELSE "InvalidArgument"
          /\ network'.outputs = network.outputs \o [k \in 1..m |-> T(k)]
          /\ \A t \in 1..Len(network.tensors) :
               network'.tensors[t].name =
                 IF \E k \in 1..m : T(k) = t
                 THEN Name(pairs[last(t)].second)
                 ELSE network.tensors[t].name
          /\ UNCHANGED <<batch_size_, trt_tensors_>>]_vars

\* The second pair failed after the first was renamed and marked.
C8_Witness ==
  /\ ret.op = "RenameAndMarkOutputTensors"
  /\ ret.status # OK
  /\ ret.marked = 1
  /\ Len(network.outputs) = 1
  /\ network.tensors[network.outputs[1]].name =
       Name(ret.output_tensors[1].second)

\* C9: ConvertGraphDefToEngine returns at the first node that fails, with
\* that node's error: no later node is processed, no output is marked, the
\* engine compiler is not called, the engine is null and the success flag
\* false. A null engine from the compiler makes the call fail with
\* Internal. A call that returns an error leaves the engine null; a call
\* that returns OK leaves it non-null with the success flag true.
C9_AbortOnFirstFailure ==
  [][/\ pc # "done"
     /\ node_idx' = node_idx + 1 /\ IsError(ret'.status) =>
          /\ pc' = "done"
          /\ result' = ret'.status
          /\ ret'.n = node_idx'
          /\ network'.outputs = <<>>
          /\ engine' = "null"
          /\ ~convert_successfully'
     /\ pc' = "loop" /\ node_idx' > 0 => ret'.status = OK
     /\ ret'.op = "buildCudaEngine" /\ engine' = "null" =>
          pc' = "done" /\ result' = "Internal"
     /\ pc' = "done" =>
          /\ result' # OK => engine' = "null"
          /\ result' = OK => engine' = "engine" /\ convert_successfully']_vars

\* A node that is not the last one of the fragment failed.
C9_Witness ==
  /\ pc = "done"
  /\ ret.op = "ConvertNode"
  /\ IsError(result)
  /\ node_idx < Len(gdef)
  /\ engine = "null" /\ ~convert_successfully

\* The output placeholders of the fragment, as positions in it.
OutputPlaceholders ==
  {i \in 1..Len(gdef) :
     IsOutputPlaceholder(gdef[i]) /\ ~IsInputPlaceholder(gdef[i])}

\* The slot an output placeholder carries in its name.
SlotOf(i) ==
  safe_strto32(SubSeq(gdef[i].name, Len(kOutputPHName) + 1,
                      Len(gdef[i].name)))

\* The output placeholders carry the slots 0..n-1, each once.
SlotsAreDense ==
  /\ \A i \in OutputPlaceholders : SlotOf(i).ok
  /\ {SlotOf(i).value : i \in OutputPlaceholders}
       = 0..(Cardinality(OutputPlaceholders) - 1)
  /\ \A i, j \in OutputPlaceholders :
       SlotOf(i).value = SlotOf(j).value => i = j

\* C10: output placeholders are deferred and bound by slot number: outputs
\* are marked only after every node of the fragment has been processed,
\* and when the placeholders carry slots 0..n-1 the k-th marked output is
\* the tensor that the placeholder of slot k consumes, wherever that
\* placeholder stands in the fragment; a marking that succeeds marks n.
C10_OutputsBySlot ==
  /\ network.outputs # <<>> =>
       /\ pc \in {"build", "done"}
       /\ node_idx = Len(gdef)
  /\ SlotsAreDense =>
       /\ \A k \in 1..Len(network.outputs) :
            \E i \in OutputPlaceholders :
              /\ SlotOf(i).value = k - 1
              /\ gdef[i].input[1] \in DOMAIN trt_tensors_
              /\ network.outputs[k] = trt_tensors_[gdef[i].input[1]].tensor
       /\ pc = "build" =>
            Len(network.outputs) = Cardinality(OutputPlaceholders)

\* The placeholder of slot 1 stands before the placeholder of slot 0 and
\* the two consume different tensors.
C10_Witness ==
  /\ pc = "build"
  /\ SlotsAreDense
  /\ Len(network.outputs) = 2
  /\ network.outputs[1] # network.outputs[2]
  /\ \E i, j \in OutputPlaceholders :
       i < j /\ SlotOf(i).value = 1 /\ SlotOf(j).value = 0

\* C11: a validation-only call never touches the Converter or the network:
\* for every operator with a registered validator and all inputs, the
\* function ValidateNode invokes returns without going through the null
\* Converter pointer, without adding a layer or a tensor to a network and
\* without pushing an output.
C11_ValidationOnly ==
  [][IsCall("ValidateNode") =>
       /\ ~ret'.null_deref
       /\ ret'.status # Abort
       /\ network' = network
       /\ ret'.outputs = <<>>]_vars

\* C12: ValidateNode returns OK for every operator without a registered
\* validator, whatever the inputs; for Const, Transpose, Reshape and MatMul
\* it invokes the function the Converter registers for the operator, in
\* validation-only mode, and returns that function's status unchanged.
C12_ValidateNodeVerdict ==
  [][IsCall("ValidateNode") =>
       LET op == ret'.node_def.op
           fn == op_registry_[op]
           r == CallConverter(fn, Params(ret'.node_def, ret'.inputs, TRUE,
                                         network, ret'.ext))
       IN IF op \in {"Const", "Transpose", "Reshape", "MatMul"}
          THEN /\ ret'.invoked = fn
               /\ ret'.status = r.status
          ELSE /\ ret'.invoked = "none"
               /\ ret'.status = OK]_vars

\* Reshape refused a shape that changes the batch dimension and ValidateNode
\* returned the refusal.
C12_Witness ==
  /\ ret.op = "ValidateNode"
  /\ ret.node_def.op = "Reshape"
  /\ ret.invoked = "ConvertReshape"
  /\ ret.status = "Unimplemented"
  /\ Len(ret.inputs) = 2

\* The error kinds of the taxonomy.
Taxonomy ==
  {"InvalidArgument", "Unimplemented", "NotFound", "AlreadyExists",
   "Internal", "OutOfRange"}

\* C20: every error a conversion function returns, to ConvertNode or to
\* ValidateNode, has a kind of the taxonomy, and an error the function
\* raises itself is InvalidArgument, Unimplemented or Internal, for every
\* operator and every arity or content of its inputs.
C20_ErrorTaxonomy ==
  [][/\ IsCall("ValidateNode") \/ IsCall("op_converter")
     /\ IsError(ret'.status)
     /\ ~ret'.null_deref
     => /\ ret'.status \in Taxonomy
        /\ ret'.status \in {"InvalidArgument", "Unimplemented",
                            "Internal"}]_vars

\* The positions of the data connections of one direction in a list.
DataConnections(connections, is_input_edge) ==
  {k \in 1..Len(connections) :
     /\ connections[k].port_number # -1
     /\ connections[k].is_input_edge = is_input_edge}

\* The distinct ports of the data connections of one direction.
PortsOf(connections, is_input_edge) ==
  {connections[k].port_number :
     k \in DataConnections(connections, is_input_edge)}

\* The marker name of a port below 10.
MarkerName(prefix, port) == prefix \o <<DigitChars[port + 1]>>

\* The nodes of a fragment whose name starts with a prefix.
NodesWithPrefix(fragment, prefix) ==
  {i \in 1..Len(fragment) : StartsWith(fragment[i].name, prefix)}

\* C13: ConvertSegmentToGraphDef emits exactly one Placeholder named
\* TensorRTInputPH_<p> for each distinct port p of the non-control input
\* connections and exactly one Identity named TensorRTOutputPH_<p> for each
\* distinct port p of the non-control output connections, however many
\* connections share a port, and none for a control connection; one
\* incoming and one outgoing edge give one of each, both of port 0.
C13_OneMarkerPerPort ==
  [][IsCall("ConvertSegmentToGraphDef") /\ ret'.status # "NotFound" =>
       LET ins == PortsOf(ret'.connections, TRUE)
           outs == PortsOf(ret'.connections, FALSE)
           Named(name, op) ==
             {i \in 1..Len(gdef') :
                gdef'[i].name = name /\ gdef'[i].op = op}
       IN /\ \A p \in ins :
               Cardinality(Named(MarkerName(kInputPHName, p),
                                 "Placeholder")) = 1
          /\ \A p \in outs :
               Cardinality(Named(MarkerName(kOutputPHName, p),
                                 "Identity")) = 1
          /\ Cardinality(NodesWithPrefix(gdef', kInputPHName))
               = Cardinality(ins)
          /\ Cardinality(NodesWithPrefix(gdef', kOutputPHName))
               = Cardinality(outs)
          /\ ret'.markers = Cardinality(ins) + Cardinality(outs)]_vars

\* Two input connections share port 0, next to a control connection, and
\* the fragment has one input placeholder.
C13_Witness ==
  /\ ret.op = "ConvertSegmentToGraphDef" /\ ret.status = OK
  /\ \E j, k \in DataConnections(ret.connections, TRUE) :
       j # k /\ ret.connections[j].port_number = ret.connections[k].port_number
  /\ \E k \in 1..Len(ret.connections) : ret.connections[k].port_number = -1
  /\ Cardinality(NodesWithPrefix(gdef, kInputPHName)) = 1

\* C14: the Identity emitted for an output connection is wired to the
\* connection's inside endpoint: its single input names the inside node
\* together with the inside port, so that an edge leaving output i > 0 of
\* an inside node makes the Identity consume output i of that node.
C14_OutputWiredToInsidePort ==
  [][IsCall("ConvertSegmentToGraphDef") /\ ret'.status # "NotFound" =>
       \A k \in DataConnections(ret'.connections, FALSE) :
         LET c == ret'.connections[k]
             endpoint == IF c.inside_port = 0 THEN c.inside_node_name
                         ELSE c.inside_node_name
                              \o <<":", DigitChars[c.inside_port + 1]>>
         IN \E i \in 1..Len(gdef') :
              /\ gdef'[i].name = MarkerName(kOutputPHName, c.port_number)
              /\ gdef'[i].op = "Identity"
              /\ gdef'[i].input = <<endpoint>>]_vars

\* The input connections that feed input j (1-based) of the k-th node of
\* the id list.
Feeds(k, j) ==
  {c \in DataConnections(ret'.connections, TRUE) :
     /\ ret'.connections[c].inside_id = ret'.subgraph_node_ids[k]
     /\ ret'.connections[c].inside_port = j - 1}

\* C15: after the marker nodes the fragment holds the internal nodes in the
\* order of the id list, copied verbatim except that, for every
\* non-control input connection, the input at inside_port of its inside
\* node is the placeholder name of the connection's port; no other input
\* is rewritten by this step.
C15_InputRewrite ==
  [][IsCall("ConvertSegmentToGraphDef")
       /\ ret'.status \in {OK, "InvalidArgument"} =>
       LET ids == ret'.subgraph_node_ids
           m == ret'.markers
           rw == ret'.rewritten
       IN /\ Len(rw) = m + Len(ids)
          /\ \A i \in 1..m :
               \/ StartsWith(rw[i].name, kInputPHName)
               \/ StartsWith(rw[i].name, kOutputPHName)
          /\ \A k \in 1..Len(ids) :
               LET node == rw[m + k]
                   orig == ret'.graph[ids[k]]
               IN /\ node.name = orig.name
                  /\ node.op = orig.op
                  /\ node.attr = orig.attr
                  /\ Len(node.input) = Len(orig.input)
                  /\ \A j \in 1..Len(orig.input) :
                       IF Feeds(k, j) # {}
                       THEN \E c \in Feeds(k, j) :
                              node.input[j] =
                                MarkerName(kInputPHName,
                                           ret'.connections[c].port_number)
                       ELSE node.input[j] = orig.input[j]
          /\ ret'.status = OK =>
               /\ Len(gdef') = Len(rw)
               /\ \A i \in 1..Len(rw) :
                    /\ gdef'[i].name = rw[i].name
                    /\ gdef'[i].op = rw[i].op
                    /\ gdef'[i].attr = rw[i].attr]_vars

\* The second input of a was rewritten to the placeholder of port 1 and its
\* first input was left alone.
C15_Witness ==
  /\ ret.op = "ConvertSegmentToGraphDef" /\ ret.status = OK
  /\ \E i \in 1..Len(ret.rewritten) :
       /\ ret.rewritten[i].name = NameA
       /\ ret.rewritten[i].input[1] = ret.graph[3].input[1]
       /\ ret.rewritten[i].input[2] = MarkerName(kInputPHName, 1)
       /\ ret.graph[3].input[2] # MarkerName(kInputPHName, 1)

\* The node an input names: without the control mark and the output index.
InputNodeName(input) ==
  LET body == IF IsControlInput(input) THEN Tail(input) ELSE input
      colons == {i \in 1..Len(body) : body[i] = ":"}
  IN IF colons = {} THEN body
     ELSE SubSeq(body, 1, (CHOOSE i \in colons : \A j \in colons : i <= j) - 1)

\* C16: ConvertSegmentToGraphDef fails with InvalidArgument iff some node
\* has a non-control input that names neither a segment node nor an input
\* placeholder; when it returns OK every input left in the fragment names a
\* segment node or an input placeholder: the control inputs that named
\* outside nodes are gone, the other inputs are kept in their order, and
\* control inputs naming segment nodes are among them.
C16_SelfContained ==
  [][IsCall("ConvertSegmentToGraphDef")
       /\ ret'.status \in {OK, "InvalidArgument"} =>
       LET rw == ret'.rewritten
           Inside(input) ==
             \/ InputNodeName(input) \in ret'.subgraph_node_names
             \/ StartsWith(InputNodeName(input), kInputPHName)
           bad == \E i \in 1..Len(rw) : \E j \in 1..Len(rw[i].input) :
                    /\ ~IsControlInput(rw[i].input[j])
                    /\ ~Inside(rw[i].input[j])
       IN /\ ret'.status = "InvalidArgument" <=> bad
          /\ ret'.status = OK =>
               /\ Len(gdef') = Len(rw)
               /\ \A i \in 1..Len(rw) :
                    /\ gdef'[i].input = SelectSeq(rw[i].input, Inside)
                    /\ \A j \in 1..Len(gdef'[i].input) :
                         Inside(gdef'[i].input[j])]_vars

\* Outside control inputs were removed from around a kept input, and a
\* control input naming a segment node was kept.
C16_Witness ==
  /\ ret.op = "ConvertSegmentToGraphDef" /\ ret.status = OK
  /\ \E i \in 1..Len(gdef) :
       /\ Len(ret.rewritten[i].input) = 4
       /\ Len(gdef[i].input) = 2
       /\ gdef[i].input[1] = ret.rewritten[i].input[2]
       /\ gdef[i].input[2] = Control(NameA)

\* An operand counted with its batch axis, right-aligned to rank m and
\* padded with 1; the batch slot of a tensor operand is -1.
Aligned(operand, is_tensor, m) ==
  LET full == IF is_tensor THEN <<-1>> \o operand ELSE operand
      pad == m - Len(full)
  IN [i \in 1..m |-> IF i <= pad THEN 1 ELSE full[i - pad]]

\* The rank of an operand counted with its batch axis.
FullRank(operand, is_tensor) ==
  IF is_tensor THEN Len(operand) + 1 ELSE Len(operand)

\* C17: TensorRTGetBroadcastShape returns false iff some tensor operand's
\* rank + 1 is below the common rank m or some axis of the aligned shapes
\* has different sizes with neither equal to 1; on success both outputs
\* have rank m - 1 and are the aligned shapes without their first slot.  A
\* rank-3 tensor and a rank-4 weight broadcast only if the weight's leading
\* axis is 1, and two tensors only if they have equal rank.
C17_BroadcastShape ==
  ret.op = "TensorRTGetBroadcastShape" =>
    LET a == ret.args
        l_d == FullRank(a.operand_l, a.operand_l_is_tensor)
        r_d == FullRank(a.operand_r, a.operand_r_is_tensor)
        m == IF l_d > r_d THEN l_d ELSE r_d
        l == Aligned(a.operand_l, a.operand_l_is_tensor, m)
        r == Aligned(a.operand_r, a.operand_r_is_tensor, m)
        short == \/ a.operand_l_is_tensor /\ l_d < m
                 \/ a.operand_r_is_tensor /\ r_d < m
        clash == \E i \in 1..m : l[i] # r[i] /\ l[i] # 1 /\ r[i] # 1
    IN /\ ~ret.out.ok <=> (short \/ clash)
       /\ ret.out.ok =>
            /\ Len(ret.out.operand_l_new_shape) = m - 1
            /\ Len(ret.out.operand_r_new_shape) = m - 1
            /\ ret.out.operand_l_new_shape = Tail(l)
            /\ ret.out.operand_r_new_shape = Tail(r)
       /\ /\ ret.out.ok
          /\ a.operand_l_is_tensor /\ Len(a.operand_l) = 3
          /\ ~a.operand_r_is_tensor /\ Len(a.operand_r) = 4
          => a.operand_r[1] = 1
       /\ ret.out.ok /\ a.operand_l_is_tensor /\ a.operand_r_is_tensor
          => Len(a.operand_l) = Len(a.operand_r)

\* A rank-3 tensor and a rank-4 weight with leading axis 1 and a unit axis
\* against a larger one broadcast.
C17_Witness ==
  /\ ret.op = "TensorRTGetBroadcastShape"
  /\ ret.args.operand_l_is_tensor /\ Len(ret.args.operand_l) = 3
  /\ ~ret.args.operand_r_is_tensor /\ Len(ret.args.operand_r) = 4
  /\ ret.args.operand_r[4] = 1 /\ ret.args.operand_l[3] = 3
  /\ ret.out.ok
  /\ ret.out.operand_r_new_shape[3] = 1

\* C18: for the tensor T = [5, 3], whose dims without the batch axis 5 are
\* [3], and the weights W = [1, 3], TensorRTGetBroadcastShape succeeds and
\* both resulting shapes have rank 1 with the single axis of size 3.
C18_BroadcastExample ==
  /\ ret.op = "TensorRTGetBroadcastShape"
  /\ ret.args.operand_l = <<3>> /\ ret.args.operand_l_is_tensor
  /\ ret.args.operand_r = <<1, 3>> /\ ~ret.args.operand_r_is_tensor
  => /\ ret.out.ok
     /\ ret.out.operand_l_new_shape = <<3>>
     /\ ret.out.operand_r_new_shape = <<3>>

\* The call on T and W has returned true.
C18_Witness ==
  /\ ret.op = "TensorRTGetBroadcastShape"
  /\ ret.args.operand_l = <<3>> /\ ret.args.operand_l_is_tensor
  /\ ret.args.operand_r = <<1, 3>> /\ ~ret.args.operand_r_is_tensor
  /\ ret.out.ok

\* C19: for every spatial axis with input size n >= 1, stride s >= 1 and
\* kernel k >= 1, CreateSamePadding returns (left, right) with
\* p = max(0, ((n - 1) div s) * s + k - n), left = p div 2 and
\* right = p - left, hence left + right = p, left <= right and
\* right - left <= 1; n = 7, s = 2, k = 3 gives the total 2, split 1 and 1.
C19_SamePadding ==
  ret.op = "CreateSamePadding" =>
    /\ ret.status = OK
    /\ Len(ret.padding) = Len(ret.args.input_dims)
    /\ \A i \in 1..Len(ret.padding) :
         LET n == ret.args.input_dims[i]
             s == ret.args.stride[i]
             k == ret.args.kernel[i]
             raw == ((n - 1) \div s) * s + k - n
             p == IF raw > 0 THEN raw ELSE 0
             left == ret.padding[i][1]
             right == ret.padding[i][2]
         IN /\ left = p \div 2
            /\ right = p - left
            /\ left + right = p
            /\ left <= right
            /\ right - left <= 1
            /\ (n = 7 /\ s = 2 /\ k = 3) => (left = 1 /\ right = 1)

\* One axis is the example n = 7, s = 2, k = 3, the other has an odd total.
C19_Witness ==
  /\ ret.op = "CreateSamePadding"
  /\ ret.args.input_dims[1] = 7 /\ ret.args.stride[1] = 2
  /\ ret.args.kernel[1] = 3
  /\ ret.padding[1] = <<1, 1>>
  /\ ret.padding[2][2] = ret.padding[2][1] + 1

\* C29: once ConvertGraphDefToEngine has marked the outputs of a fragment,
\* the name of every input placeholder and of every output placeholder of
\* the fragment is the name of a tensor of the network, each output name on
\* a tensor marked as output; also when an output placeholder consumes an
\* engine input directly.
C29_BindingNames ==
  pc = "build" =>
    /\ \A i \in 1..Len(gdef) :
         IsInputPlaceholder(gdef[i]) =>
           \E t \in 1..Len(network.tensors) :
             network.tensors[t].name = Name(gdef[i].name)
    /\ \A i \in OutputPlaceholders :
         \E k \in 1..Len(network.outputs) :
           network.tensors[network.outputs[k]].name = Name(gdef[i].name)

\* C30: after any sequence of AddInputTensor and ConvertNode calls on one
\* Converter, every tensor entry of trt_tensors_ carries the Converter's
\* current batch size, also an entry inserted while the batch size was
\* unknown and fixed by a later input.  Stated for the sequences of at most
\* two such calls, all returning OK, on a new Converter.
C30_SingleBatchSize ==
  [][/\ IsCall("AddInputTensor") \/ IsCall("ConvertNode")
     /\ ret.n = 0 \/ (ret.n = 1 /\ ret.op \in {"AddInputTensor", "ConvertNode"})
     /\ ret.status = OK /\ ret'.status = OK
     => \A name \in DOMAIN trt_tensors_' :
          trt_tensors_'[name].is_tensor =>
            trt_tensors_'[name].batch_size = batch_size_']_vars

\* The layers a call added to the network.
LayersAdded(before, after) ==
  SubSeq(after.layers, Len(before.layers) + 1, Len(after.layers))

\* The verdict on a permutation perm (batch dimension included) for a tensor
\* of non-batch dimensions dims, as the transposition rule words it.
PermVerdict(perm, dims) ==
  IF Len(perm) # Len(dims) + 1 THEN "InvalidArgument"
  ELSE IF perm[1] # 0 THEN "Unimplemented"
  ELSE OK

\* dims with its axes in the order order[i] = perm[i+1] - 1 (0-based).
Permuted(perm, dims) == [i \in 1..Len(dims) |-> dims[(perm[i + 1] - 1) + 1]]

\* C21: no transposition moves the batch dimension.  TransposeTensor and
\* the Transpose converter reject a permutation whose length is not the
\* tensor's non-batch rank + 1 with InvalidArgument and one whose first
\* entry is not 0 with Unimplemented, both without adding a layer; an
\* accepted permutation gives a tensor whose non-batch axis i is the
\* input's axis perm[i+1] - 1, through one shuffle layer.
C21_TransposeKeepsBatch ==
  [][/\ IsCall("TransposeTensor") =>
          LET perm == ret'.args.order_with_batch_dim
              dims == network.tensors[ret'.args.input_tensor].dims
              verdict == PermVerdict(perm, dims)
          IN /\ verdict # OK => ret'.status = verdict /\ network' = network
             /\ verdict = OK => ret'.status \in {OK, "Internal"}
             /\ ret'.status = OK =>
                  /\ LayersAdded(network, network') = <<"Shuffle">>
                  /\ network'.tensors[ret'.out.tensor].dims
                       = Permuted(perm, dims)
     /\ IsCall("op_converter") /\ ret'.invoked = "ConvertTranspose" =>
          LET perm == ret'.args.inputs[2].weights.values
              dims == network.tensors[ret'.args.inputs[1].tensor].dims
              verdict == PermVerdict(perm, dims)
          IN /\ verdict # OK => ret'.status = verdict /\ network' = network
             /\ verdict = OK => ret'.status \in {OK, "Internal"}
             /\ ret'.status = OK =>
                  /\ LayersAdded(network, network') = <<"Shuffle">>
                  /\ Len(ret'.out.outputs) = 1
                  /\ network'.tensors[ret'.out.outputs[1].tensor].dims
                       = Permuted(perm, dims)]_vars

\* TransposeTensor has exchanged the first and the last non-batch axis of
\* the [3,4,2] tensor.
C21_Witness ==
  /\ ret.op = "TransposeTensor"
  /\ ret.status = OK
  /\ ret.args.order_with_batch_dim = <<0, 3, 2, 1>>
  /\ network.tensors[ret.out.tensor].dims = <<2, 4, 3>>

\* The dimensions of a value: of the tensor in net, or of the weights.
DimsOfValue(net, v) ==
  IF v.is_tensor THEN net.tensors[v.tensor].dims ELSE v.weights.shape

\* C22: PrepareTensorForShape fails with InvalidArgument and adds no layer
\* when the target dimensions hold no -1 and their element count differs
\* from the source's, for a tensor and for weights alike.  Otherwise a
\* tensor that has exactly the target dimensions is returned as it is with
\* no layer added, a tensor with other dimensions gets exactly one shuffle
\* layer, and weights get exactly one constant layer of the target shape.
C22_PrepareTensorForShape ==
  [][IsCall("PrepareTensorForShape") =>
       LET input == ret'.args.input
           dims == ret'.args.dims
           source == DimsOfValue(network, input)
           mismatch == /\ \A i \in 1..Len(dims) : dims[i] # -1
                       /\ Product(source) # Product(dims)
           added == LayersAdded(network, network')
       IN /\ mismatch => ret'.status = "InvalidArgument" /\ added = <<>>
          /\ ~mismatch /\ input.is_tensor /\ source = dims =>
               /\ ret'.status = OK
               /\ ret'.out.tensor = input.tensor
               /\ added = <<>>
          /\ ~mismatch /\ input.is_tensor /\ source # dims =>
               /\ ret'.status \in {OK, "Internal"}
               /\ ret'.status = OK =>
                    /\ added = <<"Shuffle">>
                    /\ network'.tensors[ret'.out.tensor].dims = dims
               /\ ret'.status # OK => added = <<>>
          /\ ~mismatch /\ ~input.is_tensor =>
               /\ ret'.status \in {OK, "Internal"}
               /\ ret'.status = OK =>
                    /\ added = <<"Constant">>
                    /\ network'.tensors[ret'.out.tensor].dims = dims
               /\ ret'.status # OK => added = <<>>]_vars

\* PrepareTensorForShape has returned the [2,3] tensor for the target
\* [2,3] without a layer.
C22_Witness ==
  /\ ret.op = "PrepareTensorForShape"
  /\ ret.status = OK
  /\ ret.args.input.is_tensor
  /\ ret.args.dims = <<2, 3>>
  /\ ret.out.tensor = ret.args.input.tensor
  /\ network.layers = <<>>

\* All the entries of dims are known.
FullyStatic(dims) == \A i \in 1..Len(dims) : dims[i] >= 0

\* The decision table of Reshape: b is the batch size of the input tensor,
\* r the first value of the shape constant, I the input's non-batch
\* dimensions and R the other values of the shape constant.
ReshapeTableAccepts(b, r, I, R) ==
  LET known == b > 0
      same == FullyStatic(I) /\ FullyStatic(R) /\ Product(I) = Product(R)
  IN \/ known /\ r = b
     \/ known /\ r = -1 /\ same
     \/ ~known /\ same

PadOf(pad_data, a, side) == pad_data[2 * a + side]

\* The axes a paddings constant for a rank-4 input pads.
PaddedAxes(pad_data) ==
  {a \in 0..3 : PadOf(pad_data, a, 1) # 0 \/ PadOf(pad_data, a, 2) # 0}

\* C24: ConvertPad, given a tensor of non-batch rank 3, a [4,2] paddings
\* constant and Tpaddings = DT_INT32, rejects without building a padding
\* layer a non-zero padding of the batch axis (InvalidArgument), of more
\* than two axes (InvalidArgument) and of exactly the axes 1 and 3
\* (Unimplemented); an all-zero padding returns the input tensor with no
\* layer added; for every other pattern a success has built one padding
\* layer and every axis of the output is the input's axis plus its two
\* amounts.
C24_PadPatterns ==
  [][/\ IsCall("op_converter")
     /\ ret'.invoked = "ConvertPad"
     /\ ret'.args.inputs[2].weights.shape = <<4, 2>>
     /\ ret'.args.node_def.attr.Tpaddings = "DT_INT32"
     => LET input == ret'.args.inputs[1]
            pad_data == ret'.args.inputs[2].weights.values
            axes == PaddedAxes(pad_data)
            dims == network.tensors[input.tensor].dims
            added == LayersAdded(network, network')
            Count(kind) ==
              Cardinality({i \in 1..Len(added) : added[i] = kind})
        IN /\ 0 \in axes =>
                ret'.status = "InvalidArgument" /\ Count("Padding") = 0
           /\ Cardinality(axes) > 2 =>
                ret'.status = "InvalidArgument" /\ Count("Padding") = 0
           /\ axes = {1, 3} =>
                ret'.status = "Unimplemented" /\ Count("Padding") = 0
           /\ axes = {} =>
                /\ ret'.status = OK
                /\ ret'.out.outputs = <<input>>
                /\ added = <<>>
           /\ /\ axes # {}
              /\ 0 \notin axes
              /\ Cardinality(axes) <= 2
              /\ axes # {1, 3}
              /\ ret'.status = OK
              => /\ Count("Padding") = 1
                 /\ Len(ret'.out.outputs) = 1
                 /\ network'.tensors[ret'.out.outputs[1].tensor].dims
                      = [a \in 1..3 |->
                           dims[a] + PadOf(pad_data, a, 1)
                                   + PadOf(pad_data, a, 2)]]_vars

\* The non-batch axis (0-based) an axis value of ConcatV2 denotes for
\* inputs of non-batch rank n; the batch dimension is axis -1.
ConcatAxisOf(given, n) == IF given < 0 THEN given + n ELSE given - 1

\* C25: whenever ConvertConcat builds a concatenation layer, the axis it
\* sets is a non-batch axis of the inputs (0 <= axis < non-batch rank).  An
\* axis value that denotes the batch dimension (0 or minus the rank with
\* batch) or lies outside the rank is rejected with InvalidArgument, and so
\* is an input whose rank, or whose size on an axis other than the
\* concatenation axis, differs from the first input's.  Tidx is DT_INT32.
C25_ConcatAxis ==
  [][/\ IsCall("op_converter")
     /\ ret'.invoked = "ConvertConcat"
     /\ ret'.args.node_def.attr.Tidx = "DT_INT32"
     => LET inputs == ret'.args.inputs
            given == inputs[3].weights.values[1]
            first == network.tensors[inputs[1].tensor].dims
            second == network.tensors[inputs[2].tensor].dims
            n == Len(first)
            axis == ConcatAxisOf(given, n)
        IN /\ ret'.out.built => 0 <= ret'.out.axis /\ ret'.out.axis < n
           /\ axis < 0 \/ axis >= n =>
                ret'.status = "InvalidArgument" /\ ~ret'.out.built
           /\ Len(second) # n =>
                ret'.status = "InvalidArgument" /\ ~ret'.out.built
           /\ /\ Len(second) = n
              /\ \E j \in 1..n : j # axis + 1 /\ second[j] # first[j]
              => ret'.status = "InvalidArgument" /\ ~ret'.out.built]_vars

\* C26: ConvertBinary on two operands.  Two weights: Unimplemented and no
\* layer.  Exactly one weight: the scale path runs first and, if it returns
\* an error, the elementwise path runs and its status is the one returned.
\* Two tensors: the elementwise path alone runs.  Every success has exactly
\* one output, also when the scale path had added layers before it failed.
C26_BinaryDispatch ==
  [][/\ IsCall("op_converter")
     /\ ret'.invoked = "ConvertBinary"
     /\ Len(ret'.args.inputs) = 2
     => LET l == ret'.args.inputs[1]
            r == ret'.args.inputs[2]
            out == ret'.out
        IN /\ ~l.is_tensor /\ ~r.is_tensor =>
                ret'.status = "Unimplemented" /\ network' = network
           /\ l.is_tensor # r.is_tensor =>
                /\ out.scale # "none"
                /\ out.scale = OK =>
                     out.elementwise = "none" /\ ret'.status = OK
                /\ out.scale # OK =>
                     /\ out.elementwise # "none"
                     /\ ret'.status = out.elementwise
           /\ l.is_tensor /\ r.is_tensor =>
                /\ out.scale = "none"
                /\ out.elementwise # "none"
                /\ ret'.status = out.elementwise
           /\ ret'.status = OK => Len(out.outputs) = 1]_vars

\* The scale path has added its first shuffle layer and failed in addScale,
\* and the elementwise path has then built the one output.
C26_Witness ==
  /\ ret.op = "op_converter"
  /\ ret.invoked = "ConvertBinary"
  /\ ret.out.scale = "Internal"
  /\ ret.out.elementwise = OK
  /\ ret.status = OK
  /\ Len(ret.out.outputs) = 1
  /\ network.layers = <<"Shuffle", "Constant", "ElementWise">>

\* The shape of the weights after a leading axis of size 1 is dropped when
\* their rank is the tensor's non-batch rank + 1.
DropLeadingOne(W, T) ==
  IF Len(W) = Len(T) + 1 /\ W[1] = 1 THEN Tail(W) ELSE W

\* The cases of the scale-mode selection for weights of shape W against a
\* tensor of non-batch dimensions T.
IsUniform(W, T) == Product(W) = 1
IsPerElement(W, T) == ~IsUniform(W, T) /\ DropLeadingOne(W, T) = T
IsPerChannel(W, T) ==
  LET w == DropLeadingOne(W, T)
  IN /\ ~IsUniform(W, T)
     /\ w # T
     /\ Len(w) = Len(T)
     /\ w[1] = T[1]
     /\ \A i \in 2..Len(w) : w[i] = 1
IsLastAxis(W, T) ==
  LET w == DropLeadingOne(W, T)
  IN ~IsUniform(W, T) /\ Len(w) = 1 /\ w[1] = T[Len(T)]

\* C27: scale-mode selection of the tensor-weight path for a tensor of
\* non-batch rank 3, every constructor succeeding: uniform iff the weights
\* have one element; otherwise, after a leading axis of size 1 is dropped
\* from weights of rank 4, per-element iff the dimensions are the
\* tensor's, per-channel iff the ranks and first axes are equal and the
\* other weight axes are 1, per-channel between two transpositions iff the
\* weights have rank 1 and the size of the tensor's last axis, and
\* InvalidArgument in every other case.  ConvertNode on Add(x, y) with x a
\* [N,3,4,4] input and y weights of shape [1] builds one uniform scale
\* layer and binds exactly one output, a tensor, under the node's name.
C27_ScaleMode ==
  [][/\ /\ IsCall("op_converter")
        /\ ret'.invoked = "ConvertBinary"
        /\ Len(ret'.args.inputs) = 2
        /\ ret'.args.inputs[1].is_tensor # ret'.args.inputs[2].is_tensor
        /\ ret'.args.node_def.op \in {"Add", "Sub", "Mul", "Div"}
        /\ ret'.args.ext.null_kinds = {}
        /\ LET l == ret'.args.inputs[1]
               r == ret'.args.inputs[2]
           IN Len(network.tensors[IF l.is_tensor THEN l.tensor
                                  ELSE r.tensor].dims) = 3
        => LET l == ret'.args.inputs[1]
               r == ret'.args.inputs[2]
               swapped == r.is_tensor
               T == network.tensors[IF swapped THEN r.tensor
                                    ELSE l.tensor].dims
               W == IF swapped THEN l.weights.shape ELSE r.weights.shape
               added == LayersAdded(network, network')
               Has(kind) == \E i \in 1..Len(added) : added[i] = kind
               unary == IF swapped /\ ret'.args.node_def.op \in {"Sub", "Div"}
                        THEN <<"Unary">> ELSE <<>>
           IN /\ IsUniform(W, T) <=> Has("Scale_kUNIFORM")
              /\ IsPerElement(W, T) <=> Has("Scale_kELEMENTWISE")
              /\ IsPerChannel(W, T) <=>
                   added = unary \o <<"Scale_kCHANNEL">>
              /\ IsLastAxis(W, T) <=>
                   added = <<"Shuffle">> \o unary
                           \o <<"Scale_kCHANNEL", "Shuffle">>
              /\ \/ IsUniform(W, T) \/ IsPerElement(W, T)
                 \/ IsPerChannel(W, T) \/ IsLastAxis(W, T)
                 \/ ret'.out.scale = "InvalidArgument"
              /\ ret'.out.scale \in {OK, "InvalidArgument"}
     /\ /\ IsCall("ConvertNode")
        /\ ret'.args.node_def.op = "Add"
        /\ ret'.args.node_def.input = <<NameX, NameY>>
        /\ ret'.args.ext.null_kinds = {}
        => /\ ret'.status = OK
           /\ LayersAdded(network, network') = <<"Scale_kUNIFORM">>
           /\ ret'.out.bound = 1
           /\ DOMAIN trt_tensors_'
                = DOMAIN trt_tensors_ \cup {ret'.args.node_def.name}
           /\ trt_tensors_'[ret'.args.node_def.name].is_tensor]_vars

\* ConvertNode has converted Add(x, y), x the [N,3,4,4] input and y weights
\* of shape [1], into one uniform scale layer.
C27_Witness ==
  /\ ret.op = "ConvertNode"
  /\ ret.status = OK
  /\ ret.args.node_def.op = "Add"
  /\ ret.args.node_def.input = <<NameX, NameY>>
  /\ network.layers = <<"Scale_kUNIFORM">>
  /\ ConvNodeName \in DOMAIN trt_tensors_

\* The verdicts that reject a node for its shapes, its arguments or an
\* unsupported combination.
RejectingVerdicts ==
  {"InvalidArgument", "Unimplemented", "FailedPrecondition", "OutOfRange"}

\* C28: for an operator with a registered validator, a node that
\* ValidateNode accepts on given inputs is not rejected by its converter on
\* the same inputs for a shape, an argument or an unsupported combination,
\* every layer constructor succeeding.
C28_ValidationAgrees ==
  [][/\ IsCall("op_converter")
     /\ ret.op = "ValidateNode"
     /\ ret.status = OK
     /\ ret'.args.node_def.op \in DOMAIN op_validators_
     /\ ret'.args.ext.null_kinds = {}
     => ret'.status \notin RejectingVerdicts]_vars

====
